---- MODULE Spec2Model ----
(* Model of the expression engine of Qt-Calculator:                        *)
(*   calculator/core/parser.py     tokenize, build_expression_tree         *)
(*   calculator/core/evaluator.py  Evaluator.evaluate                      *)
(*   calculator/core/exception.py  ParsingException, EvaluationException   *)
(*                                                                         *)
(* A source string is a sequence of one-character strings.  The two       *)
(* non-ASCII operator glyphs of constants.py are written with ASCII       *)
(* stand-ins: "*" is the multiplication sign, "/" the division sign.      *)
(* Indices are kept 0-based as in the Python code; At(s, i) reads s[i].   *)
EXTENDS Integers, Sequences, FiniteSets, TLC

VARIABLES exp, pc, token_list, node, obj_heap, obj_root, obj_peak, _context, value, exc,
          _stateStack, model_input, model_hint, _uncloseBrackets, handler_pc, pop_i,
          key_count

vars ==
    <<exp, pc, token_list, node, obj_heap, obj_root, obj_peak, _context, value, exc,
      _stateStack, model_input, model_hint, _uncloseBrackets, handler_pc, pop_i,
      key_count>>

rt_vars ==
    <<_stateStack, model_input, model_hint, _uncloseBrackets, handler_pc, pop_i, key_count>>

None == [type |-> "None"]

(***************************************************************************)
(* Outcome of a Python call: it returns a value or raises an exception.   *)
(***************************************************************************)
Return(v) == [raised |-> FALSE, val |-> v]

Raise(e) == [raised |-> TRUE, exc |-> e]

At(s, i) == s[i + 1]

Slice(s, from, to) == SubSeq(s, from + 1, to)

(***************************************************************************)
(* calculator/core/constants.py                                            *)
(***************************************************************************)
OP_ADD == "+"

OP_MINUS == "-"

OP_MULTIPLY == "*"

OP_DIVIDE == "/"

OP_POWER == "^"

OP_MOD == "%"

OP_NEGATIVE == "-"

OP_POSITIVE == "+"

OP_FACTORIAL == "!"

SEP_COMMA == ","

SEP_LEFT_BRACKET == "("

SEP_RIGHT_BRACKET == ")"

SEP_DOT == "."

(***************************************************************************)
(* calculator/core/parser.py: operator tables (symbol -> priority, affix). *)
(***************************************************************************)
BINOP_TABLE ==
    [o \in {OP_ADD, OP_MINUS, OP_MULTIPLY, OP_DIVIDE, OP_MOD, OP_POWER} |->
        CASE o \in {OP_ADD, OP_MINUS} -> [op |-> o, priority |-> 5, affix |-> "INFIX"]
          [] o \in {OP_MULTIPLY, OP_DIVIDE, OP_MOD} -> [op |-> o, priority |-> 6, affix |-> "INFIX"]
          [] o = OP_POWER -> [op |-> o, priority |-> 7, affix |-> "INFIX"]]

UNARYOP_TABLE ==
    [o \in {OP_NEGATIVE, OP_POSITIVE, OP_FACTORIAL} |->
        CASE o \in {OP_NEGATIVE, OP_POSITIVE} -> [op |-> o, priority |-> 5, affix |-> "PREFIX"]
          [] o = OP_FACTORIAL -> [op |-> o, priority |-> 6, affix |-> "POSTFIX"]]

VALID_SEPARATORS == {SEP_COMMA}

(***************************************************************************)
(* Character classes of str.isnumeric / str.isalpha on the model alphabet. *)
(***************************************************************************)
DigitChars == {"0", "1", "2", "3", "4", "5", "6", "7", "8", "9"}

LetterChars ==
    {"a", "b", "c", "d", "e", "f", "g", "h", "i", "j", "k", "l", "m", "n", "o", "p", "q", "r", "s",
     "t", "u", "v", "w", "x", "y", "z", "E"}

isnumeric(char) == char \in DigitChars

isalpha(char) == char \in LetterChars

DigitVal(char) ==
    CASE char = "0" -> 0 [] char = "1" -> 1 [] char = "2" -> 2 [] char = "3" -> 3
      [] char = "4" -> 4 [] char = "5" -> 5 [] char = "6" -> 6 [] char = "7" -> 7
      [] char = "8" -> 8 [] char = "9" -> 9

(***************************************************************************)
(* calculator/core/exception.py                                            *)
(***************************************************************************)
\* variant: pos keeps the 0-based offset
ParsingException_no_shift(msg, pos) ==
    [type |-> "ParsingException", args |-> <<msg, pos>>, pos |-> pos]

ParsingException(msg, pos) ==
    [type |-> "ParsingException", args |-> <<msg, pos>>, pos |-> pos + 1]

IndexError == [type |-> "IndexError"]

ValueError == [type |-> "ValueError"]

(***************************************************************************)
(* calculator/core/tokens.py                                               *)
(***************************************************************************)
TokenNumber(num, pos) == [type |-> "TokenNumber", num |-> num, pos |-> pos]

TokenName(name, pos) == [type |-> "TokenName", name |-> name, pos |-> pos]

TokenSymbol(symbol, pos) == [type |-> "TokenSymbol", symbol |-> symbol, pos |-> pos]

\* variant: the open bracket is emitted as a plain symbol token
TokenOpenBracket_as_symbol(pos) == [type |-> "TokenSymbol", symbol |-> SEP_LEFT_BRACKET, pos |-> pos]

TokenOpenBracket(pos) == [type |-> "TokenOpenBracket", symbol |-> SEP_LEFT_BRACKET, pos |-> pos]

TokenCloseBracket(pos) == [type |-> "TokenCloseBracket", symbol |-> SEP_RIGHT_BRACKET, pos |-> pos]

\* isinstance(token, tokens.TokenSymbol): the bracket tokens are subclasses
IsTokenSymbol(token) == token.type \in {"TokenSymbol", "TokenOpenBracket", "TokenCloseBracket"}


(***************************************************************************)
(* int(content) and float(content) of the consumed literal.  A number is  *)
(* [t, m, e]: Python type t and the decimal value m * 10^e; a float keeps  *)
(* the canonical form with no trailing zero in m (binary rounding of      *)
(* floats is not modelled).                                                *)
(***************************************************************************)
RECURSIVE DigitsToNat(_)
DigitsToNat(s) ==
    IF s = <<>> THEN 0
    ELSE 10 * DigitsToNat(SubSeq(s, 1, Len(s) - 1)) + DigitVal(s[Len(s)])

AllDigits(s) == \A k \in 1..Len(s) : isnumeric(s[k])

\* 0-based index of the first character of s that is in set cs, Len(s) if none
IndexOf(s, cs) ==
    IF \E k \in 1..Len(s) : s[k] \in cs
    THEN (CHOOSE k \in 1..Len(s) : s[k] \in cs /\ \A j \in 1..(k - 1) : s[j] \notin cs) - 1
    ELSE Len(s)

RECURSIVE Canonical(_, _)
Canonical(m, e) ==
    IF m = 0 THEN [m |-> 0, e |-> 0]
    ELSE IF m % 10 = 0 THEN Canonical(m \div 10, e + 1)
    ELSE [m |-> m, e |-> e]

IntNum(m) == [t |-> "int", m |-> m, e |-> 0]

FloatNum(m, e) == [t |-> "float", m |-> Canonical(m, e).m, e |-> Canonical(m, e).e]

PyInt(content) ==
    IF content # <<>> /\ AllDigits(content)
    THEN Return(IntNum(DigitsToNat(content)))
    ELSE Raise(ValueError)

PyFloat(content) ==
    LET ePos == IndexOf(content, {"e", "E"})
        hasExp == ePos < Len(content)
        mantissa == Slice(content, 0, ePos)
        expPart == Slice(content, ePos + 1, Len(content))
        dotPos == IndexOf(mantissa, {SEP_DOT})
        intPart == Slice(mantissa, 0, dotPos)
        fracPart == Slice(mantissa, dotPos + 1, Len(mantissa))
        signed == expPart # <<>> /\ expPart[1] \in {"+", "-"}
        expDigits == IF signed THEN Tail(expPart) ELSE expPart
        expVal == IF ~hasExp THEN 0
                  ELSE IF signed /\ expPart[1] = "-" THEN 0 - DigitsToNat(expDigits)
                  ELSE DigitsToNat(expDigits)
        wellFormed == /\ AllDigits(intPart) /\ AllDigits(fracPart)
                      /\ Len(intPart) + Len(fracPart) >= 1
                      /\ hasExp => (expDigits # <<>> /\ AllDigits(expDigits))
    IN  IF wellFormed
        THEN Return(FloatNum(DigitsToNat(intPart \o fracPart), expVal - Len(fracPart)))
        ELSE Raise(ValueError)

(***************************************************************************)
(* calculator/core/parser.py: tokenize and its local functions.           *)
(***************************************************************************)
NAME_CHAR_SPECIALS == {"_"}

\* variant: a space counts as a name character
is_name_char_or_space(char) ==
    isalpha(char) \/ isnumeric(char) \/ char \in NAME_CHAR_SPECIALS \/ char = " "

is_name_char(char) == isalpha(char) \/ isnumeric(char) \/ char \in NAME_CHAR_SPECIALS

is_op(char) == char \in DOMAIN BINOP_TABLE \/ char \in DOMAIN UNARYOP_TABLE

state_map ==
    [s \in {"start", "int", "fraction", "exponent", "exponent_value"} |->
        CASE s = "start" -> {"int", "fraction"}
          [] s = "int" -> {"fraction", "exponent", "end"}
          [] s = "fraction" -> {"exponent", "end"}
          [] s = "exponent" -> {"exponent_value"}
          [] s = "exponent_value" -> {"end"}]

\* the state after a numeric character
numeric_step(state) ==
    IF state = "start" THEN "int"
    ELSE IF state = "exponent" THEN "exponent_value"
    ELSE state

\* variant: a letter other than e and E is reported one position to the right
alpha_step_shifted(char, state, i) ==
    IF char = "e" \/ char = "E"
    THEN IF "exponent" \in state_map[state]
         THEN Return("exponent")
         ELSE Raise(ParsingException(<<"invalid 'e'">>, i))
    ELSE Raise(ParsingException(<<"invalid character", char>>, i + 1))

\* the branch of the scanning loop taken for an alphabetic character
alpha_step(char, state, i) ==
    IF char = "e" \/ char = "E"
    THEN IF "exponent" \in state_map[state]
         THEN Return("exponent")
         ELSE Raise(ParsingException(<<"invalid 'e'">>, i))
    ELSE Raise(ParsingException(<<"invalid character", char>>, i))

\* the while loop of read_number: the values of i, state and is_end when it
\* exits, or the exception raised inside it
RECURSIVE read_number_loop(_, _, _)
read_number_loop(src, i, state) ==
    IF ~(i < Len(src)) THEN Return([i |-> i, state |-> state, is_end |-> FALSE])
    ELSE LET char == At(src, i) IN
         IF isnumeric(char) THEN read_number_loop(src, i + 1, numeric_step(state))
         ELSE IF char = SEP_DOT
         THEN IF "fraction" \in state_map[state]
              THEN read_number_loop(src, i + 1, "fraction")
              ELSE Raise(ParsingException(<<"invalid '.'">>, i))
         ELSE IF isalpha(char)
         THEN IF alpha_step(char, state, i).raised
              THEN alpha_step(char, state, i)
              ELSE read_number_loop(src, i + 1, alpha_step(char, state, i).val)
         ELSE IF char = OP_NEGATIVE \/ char = OP_POSITIVE
         THEN IF "exponent_value" \in state_map[state]
              THEN read_number_loop(src, i + 1, "exponent_value")
              ELSE Return([i |-> i, state |-> state, is_end |-> TRUE])
         ELSE Return([i |-> i, state |-> state, is_end |-> TRUE])

\* variant: every literal is converted with float()
number_of_always_float(state, content) == PyFloat(content)

\* the conversion of the consumed literal
number_of(state, content) ==
    IF state = "int" THEN PyInt(content) ELSE PyFloat(content)

\* variant: the character that ends the literal is consumed with it
read_number_consumes_end(src, start, tl) ==
    LET r == read_number_loop(src, start, "start") IN
    IF r.raised THEN r
    ELSE LET i == r.val.i
             state == r.val.state
             is_end == r.val.is_end
         IN  IF "end" \in state_map[state]
             THEN LET num == number_of(state, Slice(src, start, i)) IN
                  IF num.raised THEN num
                  ELSE Return([token_list |-> Append(tl, TokenNumber(num.val, start)),
                               i |-> IF is_end THEN i + 1 ELSE i])
             ELSE IF is_end
             THEN Raise(ParsingException(<<"invalid character", At(src, i - 1)>>, i - 1))
             ELSE IF i < Len(src)
             THEN Raise(ParsingException(<<"invalid character", At(src, i)>>, i))
             ELSE Raise(IndexError)

read_number(src, start, tl) ==
    LET r == read_number_loop(src, start, "start") IN
    IF r.raised THEN r
    ELSE LET i == r.val.i
             state == r.val.state
             is_end == r.val.is_end
         IN  IF "end" \in state_map[state]
             THEN LET num == number_of(state, Slice(src, start, i)) IN
                  IF num.raised THEN num
                  ELSE Return([token_list |-> Append(tl, TokenNumber(num.val, start)), i |-> i])
             ELSE IF is_end
             THEN Raise(ParsingException(<<"invalid character", At(src, i - 1)>>, i - 1))
             ELSE IF i < Len(src)
             THEN Raise(ParsingException(<<"invalid character", At(src, i)>>, i))
             ELSE Raise(IndexError)

RECURSIVE read_name_loop(_, _)
read_name_loop(src, i) ==
    IF i < Len(src) /\ is_name_char(At(src, i)) THEN read_name_loop(src, i + 1) ELSE i

read_name(src, start, tl) ==
    LET i == read_name_loop(src, start) IN
    Return([token_list |-> Append(tl, TokenName(Slice(src, start, i), start)), i |-> i])

\* the main loop of tokenize
RECURSIVE tokenize_loop(_, _, _)
tokenize_loop(src, i, tl) ==
    IF ~(i < Len(src)) THEN Return(tl)
    ELSE LET char == At(src, i) IN
         IF is_op(char) \/ char \in VALID_SEPARATORS
         THEN tokenize_loop(src, i + 1, Append(tl, TokenSymbol(char, i)))
         ELSE IF char = SEP_LEFT_BRACKET
         THEN tokenize_loop(src, i + 1, Append(tl, TokenOpenBracket(i)))
         ELSE IF char = SEP_RIGHT_BRACKET
         THEN tokenize_loop(src, i + 1, Append(tl, TokenCloseBracket(i)))
         ELSE IF char = SEP_DOT \/ isnumeric(char)
         THEN LET r == read_number(src, i, tl) IN
              IF r.raised THEN r ELSE tokenize_loop(src, r.val.i, r.val.token_list)
         ELSE IF char = " "
         THEN tokenize_loop(src, i + 1, tl)
         ELSE IF is_name_char(char)
         THEN LET r == read_name(src, i, tl) IN
              tokenize_loop(src, r.val.i, r.val.token_list)
         ELSE Raise(ParsingException(<<"invalid character", char>>, i))

tokenize(src) ==
    IF src = <<>> THEN Raise(ValueError) ELSE tokenize_loop(src, 0, <<>>)

(***************************************************************************)
(* calculator/core/nodes.py                                                *)
(***************************************************************************)
NumberNode(num, pos) == [type |-> "NumberNode", num |-> num, pos |-> pos]

NameConstantNode(name, pos) == [type |-> "NameConstantNode", name |-> name, pos |-> pos]

BinaryOpNode(op, left, right, pos) ==
    [type |-> "BinaryOpNode", op |-> op, left |-> left, right |-> right, pos |-> pos]

UnaryOpNode(op, child, pos) == [type |-> "UnaryOpNode", op |-> op, child |-> child, pos |-> pos]

FuncCallNode(id, args, pos) == [type |-> "FuncCallNode", id |-> id, args |-> args, pos |-> pos]

(***************************************************************************)
(* calculator/core/parser.py: build_expression_tree and its local         *)
(* functions.  Each returns Return([node, i]) or the exception it raises. *)
(* The in-place updates right.left = node and child.child = node act on   *)
(* nodes that only the running call refers to, so they are record updates. *)
(***************************************************************************)
is_unary_op(op) == op \in DOMAIN UNARYOP_TABLE

is_open_bracket(token) == token.type = "TokenOpenBracket"

is_close_bracket(token) == token.type = "TokenCloseBracket"

is_comma(token) == IsTokenSymbol(token) /\ token.symbol = SEP_COMMA

is_higher_or_equal_op_priority(op1, op2, table) ==
    LET p1 == IF op1 \in DOMAIN table THEN table[op1].priority ELSE 0
        p2 == IF op2 \in DOMAIN table THEN table[op2].priority ELSE 0
    IN  p1 >= p2

\* variant: the postfix node always wraps the whole operand
read_postfix_unary_exp_wraps(tl, index, child) ==
    Return([node |-> UnaryOpNode(At(tl, index).symbol, child, At(tl, index).pos), i |-> index + 1])

read_postfix_unary_exp(tl, index, child) ==
    LET token == At(tl, index) IN
    IF child.type = "UnaryOpNode"
    THEN IF is_higher_or_equal_op_priority(token.symbol, child.op, UNARYOP_TABLE)
         THEN Return([node |-> [child EXCEPT !.child = UnaryOpNode(token.symbol, child.child, token.pos)],
                      i |-> index + 1])
         ELSE Return([node |-> UnaryOpNode(token.symbol, child, token.pos), i |-> index + 1])
    ELSE Return([node |-> UnaryOpNode(token.symbol, child, token.pos), i |-> index + 1])

\* variant: the rotation puts the operands of the new node the other way round
binary_node_swaps(token, left, right, after) ==
    IF right.type = "BinaryOpNode" /\ ~is_open_bracket(after)
    THEN IF is_higher_or_equal_op_priority(token.symbol, right.op, BINOP_TABLE)
         THEN [right EXCEPT !.left = BinaryOpNode(token.symbol, right.left, left, token.pos)]
         ELSE BinaryOpNode(token.symbol, left, right, token.pos)
    ELSE BinaryOpNode(token.symbol, left, right, token.pos)

\* the tree read_binary_exp builds from the operator token, its left
\* operand, the parsed right-hand side and the token after the operator
binary_node(token, left, right, after) ==
    IF right.type = "BinaryOpNode" /\ ~is_open_bracket(after)
    THEN IF is_higher_or_equal_op_priority(token.symbol, right.op, BINOP_TABLE)
         THEN [right EXCEPT !.left = BinaryOpNode(token.symbol, left, right.left, token.pos)]
         ELSE BinaryOpNode(token.symbol, left, right, token.pos)
    ELSE BinaryOpNode(token.symbol, left, right, token.pos)

RECURSIVE read_exp_chain(_, _)
RECURSIVE read_exp(_, _)
RECURSIVE read_bracket_exp(_, _)
RECURSIVE read_prefix_unary_exp(_, _)
RECURSIVE read_binary_exp(_, _, _)
RECURSIVE read_func_call(_, _)
RECURSIVE read_func_args(_, _, _)

\* variant: an unexpected token is reported at the operand before it
read_exp_chain_rest_blames_operand(tl, node0, i0) ==
    IF ~(i0 < Len(tl)) THEN Return([node |-> node0, i |-> i0])
    ELSE LET next0 == At(tl, i0)
             post == IF /\ IsTokenSymbol(next0) /\ is_unary_op(next0.symbol)
                        /\ UNARYOP_TABLE[next0.symbol].affix = "POSTFIX"
                     THEN read_postfix_unary_exp(tl, i0, node0)
                     ELSE Return([node |-> node0, i |-> i0])
             nd == post.val.node
             i == post.val.i
         IN  IF ~(i < Len(tl)) THEN Return([node |-> nd, i |-> i])
             ELSE LET next_token == At(tl, i) IN
                  IF is_close_bracket(next_token) THEN Return([node |-> nd, i |-> i])
                  ELSE IF IsTokenSymbol(next_token)
                  THEN IF next_token.symbol = SEP_COMMA THEN Return([node |-> nd, i |-> i])
                       ELSE IF next_token.symbol \in DOMAIN BINOP_TABLE
                       THEN read_binary_exp(tl, i, nd)
                       ELSE Raise(ParsingException(<<"unexpected symbol", next_token.symbol>>,
                                                   next_token.pos))
                  ELSE Raise(ParsingException(<<"unexpected token">>, At(tl, i - 1).pos))

\* read_exp_chain from its first look-ahead on: node and i are the operand
\* just read
read_exp_chain_rest(tl, node0, i0) ==
    IF ~(i0 < Len(tl)) THEN Return([node |-> node0, i |-> i0])
    ELSE LET next0 == At(tl, i0)
             post == IF /\ IsTokenSymbol(next0) /\ is_unary_op(next0.symbol)
                        /\ UNARYOP_TABLE[next0.symbol].affix = "POSTFIX"
                     THEN read_postfix_unary_exp(tl, i0, node0)
                     ELSE Return([node |-> node0, i |-> i0])
             nd == post.val.node
             i == post.val.i
         IN  IF ~(i < Len(tl)) THEN Return([node |-> nd, i |-> i])
             ELSE LET next_token == At(tl, i) IN
                  IF is_close_bracket(next_token) THEN Return([node |-> nd, i |-> i])
                  ELSE IF IsTokenSymbol(next_token)
                  THEN IF next_token.symbol = SEP_COMMA THEN Return([node |-> nd, i |-> i])
                       ELSE IF next_token.symbol \in DOMAIN BINOP_TABLE
                       THEN read_binary_exp(tl, i, nd)
                       ELSE Raise(ParsingException(<<"unexpected symbol", next_token.symbol>>,
                                                   next_token.pos))
                  ELSE Raise(ParsingException(<<"unexpected token">>, next_token.pos))

read_exp_chain(tl, index) ==
    IF ~(index < Len(tl)) THEN Raise(IndexError)
    ELSE LET token == At(tl, index)
             first == IF IsTokenSymbol(token)
                      THEN IF is_open_bracket(token) THEN read_exp(tl, index)
                           ELSE IF is_unary_op(token.symbol)
                           THEN IF UNARYOP_TABLE[token.symbol].affix = "PREFIX"
                                THEN read_prefix_unary_exp(tl, index)
                                ELSE Raise(ParsingException(<<"is not a prefix operator", token.symbol>>,
                                                            token.pos))
                           ELSE Raise(ParsingException(<<"unexpected symbol", token.symbol>>, token.pos))
                      ELSE read_exp(tl, index)
         IN  IF first.raised THEN first
             ELSE read_exp_chain_rest(tl, first.val.node, first.val.i)

read_exp(tl, index) ==
    IF index >= Len(tl)
    THEN IF tl = <<>> THEN Raise(IndexError)
         ELSE Raise(ParsingException(<<"unexpected token">>, tl[Len(tl)].pos))
    ELSE LET token == At(tl, index) IN
         IF is_open_bracket(token) THEN read_bracket_exp(tl, index)
         ELSE IF token.type = "TokenNumber"
         THEN Return([node |-> NumberNode(token.num, token.pos), i |-> index + 1])
         ELSE IF token.type = "TokenName"
         THEN IF (index + 1) < Len(tl) /\ is_open_bracket(At(tl, index + 1))
              THEN read_func_call(tl, index)
              ELSE Return([node |-> NameConstantNode(token.name, token.pos), i |-> index + 1])
         ELSE IF IsTokenSymbol(token)
         THEN Raise(ParsingException(<<"unexpected symbol", token.symbol>>, token.pos))
         ELSE Raise(ParsingException(<<"unexpceted token">>, token.pos))

\* variant: a missing close bracket is reported at the last token read
read_bracket_exp_reports_last(tl, index) ==
    LET r == read_exp_chain(tl, index + 1) IN
    IF r.raised THEN r
    ELSE IF r.val.i < Len(tl) /\ is_close_bracket(At(tl, r.val.i))
    THEN Return([node |-> r.val.node, i |-> r.val.i + 1])
    ELSE Raise(ParsingException(<<"unmatch '('">>, At(tl, r.val.i - 1).pos))

read_bracket_exp(tl, index) ==
    LET r == read_exp_chain(tl, index + 1) IN
    IF r.raised THEN r
    ELSE IF r.val.i < Len(tl) /\ is_close_bracket(At(tl, r.val.i))
    THEN Return([node |-> r.val.node, i |-> r.val.i + 1])
    ELSE Raise(ParsingException(<<"unmatch '('">>, At(tl, index).pos))

read_prefix_unary_exp(tl, index) ==
    LET r == read_exp(tl, index + 1)
        token == At(tl, index)
    IN  IF r.raised THEN r
        ELSE Return([node |-> UnaryOpNode(token.symbol, r.val.node, token.pos), i |-> r.val.i])

read_binary_exp(tl, index, left) ==
    LET r == read_exp_chain(tl, index + 1) IN
    IF r.raised THEN r
    ELSE Return([node |-> binary_node(At(tl, index), left, r.val.node, At(tl, index + 1)),
                 i |-> r.val.i])

\* variant: each argument is put in front of the ones read before it
read_func_args_prepends(tl, i, args) ==
    IF i < Len(tl) /\ ~is_close_bracket(At(tl, i))
    THEN LET r == read_exp_chain(tl, i) IN
         IF r.raised THEN r
         ELSE IF r.val.i < Len(tl) /\ is_comma(At(tl, r.val.i))
         THEN read_func_args(tl, r.val.i + 1, <<r.val.node>> \o args)
         ELSE Return([args |-> <<r.val.node>> \o args, i |-> r.val.i])
    ELSE Return([args |-> args, i |-> i])

\* the while loop of read_func_call
read_func_args(tl, i, args) ==
    IF i < Len(tl) /\ ~is_close_bracket(At(tl, i))
    THEN LET r == read_exp_chain(tl, i) IN
         IF r.raised THEN r
         ELSE IF r.val.i < Len(tl) /\ is_comma(At(tl, r.val.i))
         THEN read_func_args(tl, r.val.i + 1, Append(args, r.val.node))
         ELSE Return([args |-> Append(args, r.val.node), i |-> r.val.i])
    ELSE Return([args |-> args, i |-> i])

read_func_call(tl, index) ==
    LET name_token == At(tl, index)
        r == read_func_args(tl, index + 2, <<>>)
    IN  IF r.raised THEN r
        ELSE IF r.val.i < Len(tl) /\ is_close_bracket(At(tl, r.val.i))
        THEN Return([node |-> FuncCallNode(name_token.name, r.val.args, name_token.pos),
                     i |-> r.val.i + 1])
        ELSE Raise(ParsingException(<<"unclose func call">>, name_token.pos))

build_expression_tree(tl) ==
    LET r == read_exp_chain(tl, 0) IN
    IF r.raised THEN r
    ELSE IF r.val.i < Len(tl)
    THEN LET last_token == At(tl, r.val.i) IN
         IF is_close_bracket(last_token)
         THEN Raise(ParsingException(<<"unmatch ')'">>, last_token.pos))
         ELSE Raise(ParsingException(<<"unexpected token">>, last_token.pos))
    ELSE Return(r.val.node)

parse_expression(expression) ==
    LET tokens == tokenize(expression) IN
    IF tokens.raised THEN tokens ELSE build_expression_tree(tokens.val)

(***************************************************************************)
(* build_expression_tree with its objects.  The functions above compute   *)
(* the tree as a value; the ones below follow the same code statement by  *)
(* statement and keep what the value leaves out: every node is an object  *)
(* of a heap, named by its reference (its index in the heap), its         *)
(* children are references, and child.child = node and right.left = node  *)
(* are assignments to a field of an existing object.  They also count the *)
(* activations of read_exp_chain and read_binary_exp that are on the call *)
(* stack: d is their number when the function is entered, itself          *)
(* included, and peak the largest number met until it returns.            *)
(***************************************************************************)
Max(a, b) == IF a >= b THEN a ELSE b

\* the heap after a constructor call, and the reference of the object built
New(heap, obj) == Append(heap, obj)

RefOfNew(heap) == Len(heap) + 1

Parsed(ref, i, heap, peak) == Return([node |-> ref, i |-> i, heap |-> heap, peak |-> peak])

\* variant: the spliced node takes the position of the node it is put under
read_postfix_unary_exp_obj_pos_of_child(tl, index, child, heap, d) ==
    LET token == At(tl, index)
        new == RefOfNew(heap)
    IN  IF heap[child].type = "UnaryOpNode"
        THEN IF is_higher_or_equal_op_priority(token.symbol, heap[child].op, UNARYOP_TABLE)
             THEN Parsed(child, index + 1,
                         [New(heap, UnaryOpNode(token.symbol, heap[child].child, heap[child].pos))
                             EXCEPT ![child].child = new], d)
             ELSE Parsed(new, index + 1, New(heap, UnaryOpNode(token.symbol, child, token.pos)), d)
        ELSE Parsed(new, index + 1, New(heap, UnaryOpNode(token.symbol, child, token.pos)), d)

read_postfix_unary_exp_obj(tl, index, child, heap, d) ==
    LET token == At(tl, index)
        new == RefOfNew(heap)
    IN  IF heap[child].type = "UnaryOpNode"
        THEN IF is_higher_or_equal_op_priority(token.symbol, heap[child].op, UNARYOP_TABLE)
             THEN Parsed(child, index + 1,
                         [New(heap, UnaryOpNode(token.symbol, heap[child].child, token.pos))
                             EXCEPT ![child].child = new], d)
             ELSE Parsed(new, index + 1, New(heap, UnaryOpNode(token.symbol, child, token.pos)), d)
        ELSE Parsed(new, index + 1, New(heap, UnaryOpNode(token.symbol, child, token.pos)), d)

\* variant: the rotation builds the new node over the whole right-hand side
binary_node_obj_over_right(heap, token, left, right, after) ==
    LET new == RefOfNew(heap) IN
    IF heap[right].type = "BinaryOpNode" /\ ~is_open_bracket(after)
    THEN IF is_higher_or_equal_op_priority(token.symbol, heap[right].op, BINOP_TABLE)
         THEN [node |-> right,
               heap |-> [New(heap, BinaryOpNode(token.symbol, left, right, token.pos))
                            EXCEPT ![right].left = new]]
         ELSE [node |-> new, heap |-> New(heap, BinaryOpNode(token.symbol, left, right, token.pos))]
    ELSE [node |-> new, heap |-> New(heap, BinaryOpNode(token.symbol, left, right, token.pos))]

\* the node read_binary_exp returns and the heap it leaves, from the
\* operator token, the operands and the token after the operator
binary_node_obj(heap, token, left, right, after) ==
    LET new == RefOfNew(heap) IN
    IF heap[right].type = "BinaryOpNode" /\ ~is_open_bracket(after)
    THEN IF is_higher_or_equal_op_priority(token.symbol, heap[right].op, BINOP_TABLE)
         THEN [node |-> right,
               heap |-> [New(heap, BinaryOpNode(token.symbol, left, heap[right].left, token.pos))
                            EXCEPT ![right].left = new]]
         ELSE [node |-> new, heap |-> New(heap, BinaryOpNode(token.symbol, left, right, token.pos))]
    ELSE [node |-> new, heap |-> New(heap, BinaryOpNode(token.symbol, left, right, token.pos))]

\* F(v), with v evaluated once however often F refers to it
Once(v, F(_)) == CHOOSE out \in {F(x) : x \in {v}} : TRUE

RECURSIVE read_exp_chain_obj(_, _, _, _)
RECURSIVE read_exp_obj(_, _, _, _)
RECURSIVE read_bracket_exp_obj(_, _, _, _)
RECURSIVE read_prefix_unary_exp_obj(_, _, _, _)
RECURSIVE read_binary_exp_obj(_, _, _, _, _)
RECURSIVE read_func_call_obj(_, _, _, _)
RECURSIVE read_func_args_obj(_, _, _, _, _, _)

\* read_exp_chain after its postfix operator, if any: post is the operand
read_exp_chain_tail_obj(tl, post, d) ==
    LET i == post.i IN
    IF ~(i < Len(tl)) THEN Return(post)
    ELSE LET next_token == At(tl, i) IN
         IF is_close_bracket(next_token) THEN Return(post)
         ELSE IF IsTokenSymbol(next_token)
         THEN IF next_token.symbol = SEP_COMMA THEN Return(post)
              ELSE IF next_token.symbol \in DOMAIN BINOP_TABLE
              THEN Once(read_binary_exp_obj(tl, i, post.node, post.heap, d + 1),
                        LAMBDA r : IF r.raised THEN r
                                   ELSE Parsed(r.val.node, r.val.i, r.val.heap,
                                               Max(post.peak, r.val.peak)))
              ELSE Raise(ParsingException(<<"unexpected symbol", next_token.symbol>>,
                                          next_token.pos))
         ELSE Raise(ParsingException(<<"unexpected token">>, next_token.pos))

\* read_exp_chain from its first look-ahead on: first is the operand read
read_exp_chain_rest_obj(tl, first, d) ==
    IF ~(first.i < Len(tl)) THEN Return(first)
    ELSE LET next0 == At(tl, first.i) IN
         Once(IF /\ IsTokenSymbol(next0) /\ is_unary_op(next0.symbol)
                 /\ UNARYOP_TABLE[next0.symbol].affix = "POSTFIX"
              THEN read_postfix_unary_exp_obj(tl, first.i, first.node, first.heap,
                                              first.peak).val
              ELSE first,
              LAMBDA post : read_exp_chain_tail_obj(tl, post, d))

read_exp_chain_obj(tl, index, heap, d) ==
    IF ~(index < Len(tl)) THEN Raise(IndexError)
    ELSE LET token == At(tl, index) IN
         Once(IF IsTokenSymbol(token)
              THEN IF is_open_bracket(token) THEN read_exp_obj(tl, index, heap, d)
                   ELSE IF is_unary_op(token.symbol)
                   THEN IF UNARYOP_TABLE[token.symbol].affix = "PREFIX"
                        THEN read_prefix_unary_exp_obj(tl, index, heap, d)
                        ELSE Raise(ParsingException(<<"is not a prefix operator", token.symbol>>,
                                                    token.pos))
                   ELSE Raise(ParsingException(<<"unexpected symbol", token.symbol>>, token.pos))
              ELSE read_exp_obj(tl, index, heap, d),
              LAMBDA first : IF first.raised THEN first
                             ELSE Once(first.val,
                                       LAMBDA operand : read_exp_chain_rest_obj(tl, operand, d)))

read_exp_obj(tl, index, heap, d) ==
    IF index >= Len(tl)
    THEN IF tl = <<>> THEN Raise(IndexError)
         ELSE Raise(ParsingException(<<"unexpected token">>, tl[Len(tl)].pos))
    ELSE LET token == At(tl, index) IN
         IF is_open_bracket(token) THEN read_bracket_exp_obj(tl, index, heap, d)
         ELSE IF token.type = "TokenNumber"
         THEN Parsed(RefOfNew(heap), index + 1, New(heap, NumberNode(token.num, token.pos)), d)
         ELSE IF token.type = "TokenName"
         THEN IF (index + 1) < Len(tl) /\ is_open_bracket(At(tl, index + 1))
              THEN read_func_call_obj(tl, index, heap, d)
              ELSE Parsed(RefOfNew(heap), index + 1,
                          New(heap, NameConstantNode(token.name, token.pos)), d)
         ELSE IF IsTokenSymbol(token)
         THEN Raise(ParsingException(<<"unexpected symbol", token.symbol>>, token.pos))
         ELSE Raise(ParsingException(<<"unexpceted token">>, token.pos))

read_bracket_exp_obj(tl, index, heap, d) ==
    Once(read_exp_chain_obj(tl, index + 1, heap, d + 1),
         LAMBDA r : IF r.raised THEN r
                    ELSE IF r.val.i < Len(tl) /\ is_close_bracket(At(tl, r.val.i))
                    THEN Parsed(r.val.node, r.val.i + 1, r.val.heap, r.val.peak)
                    ELSE Raise(ParsingException(<<"unmatch '('">>, At(tl, index).pos)))

read_prefix_unary_exp_obj(tl, index, heap, d) ==
    LET token == At(tl, index) IN
    Once(read_exp_obj(tl, index + 1, heap, d),
         LAMBDA r : IF r.raised THEN r
                    ELSE Parsed(RefOfNew(r.val.heap), r.val.i,
                                New(r.val.heap, UnaryOpNode(token.symbol, r.val.node, token.pos)),
                                r.val.peak))

\* d counts this activation of read_binary_exp
read_binary_exp_obj(tl, index, left, heap, d) ==
    Once(read_exp_chain_obj(tl, index + 1, heap, d + 1),
         LAMBDA r : IF r.raised THEN r
                    ELSE Once(binary_node_obj(r.val.heap, At(tl, index), left, r.val.node,
                                              At(tl, index + 1)),
                              LAMBDA b : Parsed(b.node, r.val.i, b.heap, r.val.peak)))

\* the while loop of read_func_call
read_func_args_obj(tl, i, args, heap, d, peak) ==
    IF i < Len(tl) /\ ~is_close_bracket(At(tl, i))
    THEN Once(read_exp_chain_obj(tl, i, heap, d + 1),
              LAMBDA r : IF r.raised THEN r
                         ELSE IF r.val.i < Len(tl) /\ is_comma(At(tl, r.val.i))
                         THEN read_func_args_obj(tl, r.val.i + 1, Append(args, r.val.node),
                                                 r.val.heap, d, Max(peak, r.val.peak))
                         ELSE Return([args |-> Append(args, r.val.node), i |-> r.val.i,
                                      heap |-> r.val.heap, peak |-> Max(peak, r.val.peak)]))
    ELSE Return([args |-> args, i |-> i, heap |-> heap, peak |-> peak])

read_func_call_obj(tl, index, heap, d) ==
    LET name_token == At(tl, index) IN
    Once(read_func_args_obj(tl, index + 2, <<>>, heap, d, d),
         LAMBDA r : IF r.raised THEN r
                    ELSE IF r.val.i < Len(tl) /\ is_close_bracket(At(tl, r.val.i))
                    THEN Parsed(RefOfNew(r.val.heap), r.val.i + 1,
                                New(r.val.heap,
                                    FuncCallNode(name_token.name, r.val.args, name_token.pos)),
                                r.val.peak)
                    ELSE Raise(ParsingException(<<"unclose func call">>, name_token.pos)))

\* build_expression_tree(token_list): the root, the heap and the peak
build_expression_tree_obj(tl) ==
    Once(read_exp_chain_obj(tl, 0, <<>>, 1),
         LAMBDA r : IF r.raised THEN r
                    ELSE IF r.val.i < Len(tl)
                    THEN LET last_token == At(tl, r.val.i) IN
                         IF is_close_bracket(last_token)
                         THEN Raise(ParsingException(<<"unmatch ')'">>, last_token.pos))
                         ELSE Raise(ParsingException(<<"unexpected token">>, last_token.pos))
                    ELSE Return(r.val))

(***************************************************************************)
(* Python numbers.  An evaluated value is [k |-> "num", t, n, d]: type t  *)
(* ("int" or "float") and the exact value n/d in lowest terms, or         *)
(* Beyond(t): a number of type t that the model does not compute (its     *)
(* magnitude is above MaxAbs, or it is irrational).  Rounding of floats   *)
(* is not modelled.  An operation whose outcome depends on the value of a *)
(* Beyond operand raises Unmodelled, which no handler catches.            *)
(***************************************************************************)
MaxAbs == 30000

Beyond(t) == [k |-> "beyond", t |-> t]

Unmodelled == [type |-> "Unmodelled"]

ZeroDivisionError == [type |-> "ZeroDivisionError"]

TypeError == [type |-> "TypeError"]

Abs(x) == IF x < 0 THEN 0 - x ELSE x

RECURSIVE Gcd(_, _)
Gcd(a, b) == IF b = 0 THEN a ELSE Gcd(b, a % b)

\* n/d with d > 0, reduced; Beyond when out of range
Num(t, n, d) ==
    LET g == Gcd(Abs(n), d)
        rn == n \div g
        rd == d \div g
    IN  IF Abs(rn) > MaxAbs \/ rd > MaxAbs THEN Beyond(t)
        ELSE [k |-> "num", t |-> t, n |-> rn, d |-> rd]

RECURSIVE Pow10(_)
Pow10(k) == IF k = 0 THEN 1 ELSE 10 * Pow10(k - 1)

\* the value of a literal [t, m, e]
ValueOf(num) ==
    IF num.m > MaxAbs \/ Abs(num.e) > 4 THEN Beyond(num.t)
    ELSE IF num.e >= 0 THEN Num(num.t, num.m * Pow10(num.e), 1)
    ELSE Num(num.t, num.m, Pow10(0 - num.e))

JoinType(a, b) == IF a.t = "float" \/ b.t = "float" THEN "float" ELSE "int"

\* floor(n / d) for d > 0
Floor(n, d) == IF n >= 0 THEN n \div d ELSE 0 - ((0 - n + d - 1) \div d)

IsZero(v) == v.k = "num" /\ v.n = 0

PyAdd(a, b) ==
    IF a.k = "beyond" \/ b.k = "beyond" THEN Return(Beyond(JoinType(a, b)))
    ELSE Return(Num(JoinType(a, b), a.n * b.d + b.n * a.d, a.d * b.d))

PyNeg(a) == IF a.k = "beyond" THEN Return(a) ELSE Return(Num(a.t, 0 - a.n, a.d))

PySub(a, b) == PyAdd(a, PyNeg(b).val)

PyMul(a, b) ==
    IF a.k = "beyond" \/ b.k = "beyond" THEN Return(Beyond(JoinType(a, b)))
    ELSE Return(Num(JoinType(a, b), a.n * b.n, a.d * b.d))

PyDiv(a, b) ==
    IF IsZero(b) THEN Raise(ZeroDivisionError)
    ELSE IF a.k = "beyond" \/ b.k = "beyond" THEN Raise(Unmodelled)
    ELSE IF b.n > 0 THEN Return(Num("float", a.n * b.d, a.d * b.n))
    ELSE Return(Num("float", 0 - a.n * b.d, a.d * (0 - b.n)))

\* a % b = a - b * floor(a / b)
PyMod(a, b) ==
    IF IsZero(b) THEN Raise(ZeroDivisionError)
    ELSE IF a.k = "beyond" \/ b.k = "beyond" THEN Raise(Unmodelled)
    ELSE LET qn == IF b.n > 0 THEN a.n * b.d ELSE 0 - a.n * b.d
             qd == a.d * Abs(b.n)
             q == Floor(qn, qd)
         IN  IF Abs(q) > MaxAbs THEN Return(Beyond(JoinType(a, b)))
             ELSE Return(Num(JoinType(a, b), a.n * b.d - q * b.n * a.d, a.d * b.d))

SetType(v, t) == [v EXCEPT !.t = t]

RECURSIVE IntPowLoop(_, _)
IntPowLoop(a, k) ==
    IF k = 0 THEN Num(a.t, 1, 1)
    ELSE LET p == IntPowLoop(a, k - 1) IN
         IF p.k = "beyond" THEN p ELSE PyMul(p, a).val

\* a to the power of the natural number k
IntPow(a, k) ==
    IF k = 0 THEN Num(a.t, 1, 1)
    ELSE IF a.n = 0 THEN a
    ELSE IF Abs(a.n) = 1 /\ a.d = 1 THEN IF k % 2 = 0 THEN Num(a.t, 1, 1) ELSE a
    ELSE IF k > 15 THEN Beyond(a.t)
    ELSE IntPowLoop(a, k)

Complex == [k |-> "complex"]

\* a ** b
PyPow(a, b) ==
    IF a.k = "beyond" \/ b.k = "beyond" THEN Raise(Unmodelled)
    ELSE IF b.d = 1
    THEN IF b.n > 15 /\ JoinType(a, b) = "float" /\ a.n # 0 /\ ~(Abs(a.n) = 1 /\ a.d = 1)
         THEN Raise(Unmodelled)
         ELSE IF b.n >= 0 THEN Return(SetType(IntPow(a, b.n), JoinType(a, b)))
         ELSE IF a.n = 0 THEN Raise(ZeroDivisionError)
         ELSE IF IntPow(a, 0 - b.n).k = "beyond" THEN Return(Beyond("float"))
         ELSE PyDiv(Num("float", 1, 1), IntPow(a, 0 - b.n))
    ELSE IF a.n < 0 THEN Return(Complex)
    ELSE IF a.n = 0
    THEN IF b.n < 0 THEN Raise(ZeroDivisionError) ELSE Return(Num("float", 0, 1))
    ELSE IF a.n = a.d THEN Return(Num("float", 1, 1))
    ELSE IF Abs(b.n) > 15 * b.d THEN Raise(Unmodelled)
    ELSE Return(Beyond("float"))

RECURSIVE FactLoop(_)
FactLoop(k) == IF k = 0 THEN 1 ELSE k * FactLoop(k - 1)

\* math.factorial; acceptsFloat tells whether the interpreter's math module
\* still accepts a float of integral value (it raises TypeError otherwise)
PyFactorial(a, acceptsFloat) ==
    IF a.t = "float" /\ ~acceptsFloat THEN Raise(TypeError)
    ELSE IF a.k = "beyond" THEN Raise(Unmodelled)
    ELSE IF a.d # 1 \/ a.n < 0 THEN Raise(ValueError)
    ELSE IF a.n > 7 THEN Return(Beyond("int"))
    ELSE Return(Num("int", FactLoop(a.n), 1))

(***************************************************************************)
(* calculator/core/evaluator.py                                            *)
(***************************************************************************)
EvaluationException(msg, inner) ==
    [type |-> "EvaluationException", args |-> <<msg>>, inner |-> inner]

OP_FUNCTIONS_BINARY(op, a, b) ==
    CASE op = OP_ADD -> PyAdd(a, b)
      [] op = OP_MINUS -> PySub(a, b)
      [] op = OP_MULTIPLY -> PyMul(a, b)
      [] op = OP_DIVIDE -> PyDiv(a, b)
      [] op = OP_POWER -> PyPow(a, b)
      [] op = OP_MOD -> PyMod(a, b)

OP_FUNCTIONS_UNARY(op, a, acceptsFloat) ==
    CASE op = OP_POSITIVE -> Return(a)
      [] op = OP_NEGATIVE -> PyNeg(a)
      [] op = OP_FACTORIAL -> PyFactorial(a, acceptsFloat)

\* EvaluatorContext(): the default constants; math.pi and math.e are
\* irrational, so their values are Beyond("float") (the glyph of pi is not in the
\* model alphabet).  No function is registered.
MATH_CONSTANTS == [name \in {<<"e">>} |-> Beyond("float")]

EvaluatorContext == [constants |-> MATH_CONSTANTS, functions |-> <<>>]

(***************************************************************************)
(* Registered functions.  A function is [argc, defaults, impl]: the       *)
(* number of positional parameters and of defaults that                   *)
(* inspect.getfullargspec reports for it, and the name of its body.       *)
(***************************************************************************)
Fun(argc, defaults, impl) == [argc |-> argc, defaults |-> defaults, impl |-> impl]

OverflowError == [type |-> "OverflowError"]

\* the integer square root of a natural number up to MaxAbs
ISqrt(n) == CHOOSE r \in 0..n : r * r <= n /\ (r + 1) * (r + 1) > n

\* math.sqrt
PySqrt(a) ==
    IF a.k = "beyond" THEN Raise(Unmodelled)
    ELSE IF a.n < 0 THEN Raise(ValueError)
    ELSE IF ISqrt(a.n) * ISqrt(a.n) = a.n /\ ISqrt(a.d) * ISqrt(a.d) = a.d
    THEN Return(Num("float", ISqrt(a.n), ISqrt(a.d)))
    ELSE Return(Beyond("float"))

\* math.sin, math.tan, math.degrees, math.radians and their compositions:
\* 0.0 at 0, irrational elsewhere
PyZeroAtZero(a) ==
    IF a.k = "beyond" THEN Raise(Unmodelled)
    ELSE IF a.n = 0 THEN Return(Num("float", 0, 1))
    ELSE Return(Beyond("float"))

\* math.cos and math.exp at small arguments: 1.0 at 0, irrational elsewhere
PyOneAtZero(a) ==
    IF a.k = "beyond" THEN Raise(Unmodelled)
    ELSE IF a.n = 0 THEN Return(Num("float", 1, 1))
    ELSE Return(Beyond("float"))

\* math.exp
PyExp(a) ==
    IF a.k = "beyond" THEN Raise(Unmodelled)
    ELSE IF a.n > 709 * a.d THEN Raise(OverflowError)
    ELSE PyOneAtZero(a)

\* math.log10
PyLog10(a) ==
    IF a.k = "beyond" THEN Raise(Unmodelled)
    ELSE IF a.n <= 0 THEN Raise(ValueError)
    ELSE IF \E k \in 0..4 : a.n = Pow10(k) /\ a.d = 1
    THEN Return(Num("float", CHOOSE k \in 0..4 : a.n = Pow10(k), 1))
    ELSE IF \E k \in 1..4 : a.d = Pow10(k) /\ a.n = 1
    THEN Return(Num("float", 0 - (CHOOSE k \in 1..4 : a.d = Pow10(k)), 1))
    ELSE Return(Beyond("float"))

\* math.log
PyLog(a) ==
    IF a.k = "beyond" THEN Raise(Unmodelled)
    ELSE IF a.n <= 0 THEN Raise(ValueError)
    ELSE IF a.n = a.d THEN Return(Num("float", 0, 1))
    ELSE Return(Beyond("float"))

\* abs(a), and a if a >= 0 else -a
PyAbs(a) == IF a.k = "beyond" THEN Return(a) ELSE Return(Num(a.t, Abs(a.n), a.d))

\* math.floor
PyFloor(a) ==
    IF a.k = "beyond" THEN Raise(Unmodelled) ELSE Return(Num("int", Floor(a.n, a.d), 1))

\* math.ceil
PyCeil(a) ==
    IF a.k = "beyond" THEN Raise(Unmodelled) ELSE Return(Num("int", 0 - Floor(0 - a.n, a.d), 1))

\* fun(*values) for a number of values the signature accepts
Call(fun, values) ==
    LET a == values[1] IN
    CASE fun.impl = "mult" -> PyMul(a, IF Len(values) >= 2 THEN values[2] ELSE Num("int", 2, 1))
      [] fun.impl = "abs" -> PyAbs(a)
      [] fun.impl = "invert" -> PyDiv(Num("int", 1, 1), a)
      [] fun.impl = "sqrt" -> PySqrt(a)
      [] fun.impl = "square" -> PyMul(a, a)
      [] fun.impl = "cube" -> PyMul(PyMul(a, a).val, a)
      [] fun.impl \in {"sin", "tan", "degrees", "radians"} -> PyZeroAtZero(a)
      [] fun.impl = "cos" -> PyOneAtZero(a)
      [] fun.impl = "exp" -> PyExp(a)
      [] fun.impl = "log10" -> PyLog10(a)
      [] fun.impl = "log" -> PyLog(a)
      [] fun.impl = "floor" -> PyFloor(a)
      [] fun.impl = "ceil" -> PyCeil(a)

\* the context of the evaluator tests
TestContext ==
    [constants |-> MATH_CONSTANTS,
     functions |-> [name \in {<<"a", "b", "s">>, <<"c", "o", "s">>, <<"m", "u", "l", "t">>} |->
        CASE name = <<"a", "b", "s">> -> Fun(1, 0, "abs")
          [] name = <<"c", "o", "s">> -> Fun(1, 0, "cos")
          [] name = <<"m", "u", "l", "t">> -> Fun(2, 1, "mult")]]

\* the context of CalculatorRuntimeBasic
BasicContext ==
    [constants |-> MATH_CONSTANTS,
     functions |-> [name \in {<<"i", "n", "v", "e", "r", "t">>} |-> Fun(1, 0, "invert")]]

ProFunctionNames ==
    { <<"s", "q", "r", "t">>, <<"s", "q", "u", "a", "r", "e">>, <<"c", "u", "b", "e">>,
      <<"d", "e", "g", "r", "e", "e">>, <<"r", "a", "d", "i", "a", "n", "s">>,
      <<"s", "i", "n">>, <<"s", "i", "n", "d">>, <<"c", "o", "s">>, <<"c", "o", "s", "d">>,
      <<"t", "a", "n">>, <<"t", "a", "n", "d">>, <<"l", "o", "g">>, <<"l", "n">>,
      <<"e", "x", "p">>, <<"a", "b", "s">>, <<"f", "l", "o", "o", "r">>, <<"c", "e", "i", "l">>,
      <<"i", "n", "v", "e", "r", "t">> }

\* the context of CalculatorRuntimePro
ProContext ==
    [constants |-> MATH_CONSTANTS,
     functions |-> [name \in ProFunctionNames |->
        CASE name = <<"s", "q", "r", "t">> -> Fun(1, 0, "sqrt")
          [] name = <<"s", "q", "u", "a", "r", "e">> -> Fun(1, 0, "square")
          [] name = <<"c", "u", "b", "e">> -> Fun(1, 0, "cube")
          [] name = <<"d", "e", "g", "r", "e", "e">> -> Fun(1, 0, "degrees")
          [] name = <<"r", "a", "d", "i", "a", "n", "s">> -> Fun(1, 0, "radians")
          [] name \in {<<"s", "i", "n">>, <<"s", "i", "n", "d">>} -> Fun(1, 0, "sin")
          [] name \in {<<"c", "o", "s">>, <<"c", "o", "s", "d">>} -> Fun(1, 0, "cos")
          [] name \in {<<"t", "a", "n">>, <<"t", "a", "n", "d">>} -> Fun(1, 0, "tan")
          [] name = <<"l", "o", "g">> -> Fun(1, 0, "log10")
          [] name = <<"l", "n">> -> Fun(1, 0, "log")
          [] name = <<"e", "x", "p">> -> Fun(1, 0, "exp")
          [] name = <<"a", "b", "s">> -> Fun(1, 0, "abs")
          [] name = <<"f", "l", "o", "o", "r">> -> Fun(1, 0, "floor")
          [] name = <<"c", "e", "i", "l">> -> Fun(1, 0, "ceil")
          [] name = <<"i", "n", "v", "e", "r", "t">> -> Fun(1, 0, "invert")]]

Contexts == {EvaluatorContext, TestContext, BasicContext, ProContext}

\* variant: an exception already wrapped is wrapped again on its way up
wrap_errors_rewraps(r) ==
    IF ~r.raised THEN r
    ELSE IF r.exc.type = "ZeroDivisionError"
    THEN Raise(EvaluationException(<<"zero division">>, r.exc))
    ELSE IF r.exc.type = "ValueError"
    THEN Raise(EvaluationException(<<"value error">>, r.exc))
    ELSE IF r.exc.type = "EvaluationException" /\ r.exc.inner # None
    THEN Raise(EvaluationException(r.exc.args[1], r.exc))
    ELSE r

\* the try/except of _eval_node: zero-division and value errors of the
\* wrapped call are re-raised as EvaluationException, anything else passes
wrap_errors(r) ==
    IF ~r.raised THEN r
    ELSE IF r.exc.type = "ZeroDivisionError"
    THEN Raise(EvaluationException(<<"zero division">>, r.exc))
    ELSE IF r.exc.type = "ValueError"
    THEN Raise(EvaluationException(<<"value error">>, r.exc))
    ELSE r

RECURSIVE _eval_node(_, _, _)
RECURSIVE _eval_args(_, _, _)

_eval_number(nd) == Return(ValueOf(nd.num))

\* variant: a name absent from the context reads as 0
_eval_const_absent_is_zero(nd, context) ==
    IF nd.name \in DOMAIN context.constants
    THEN Return(context.constants[nd.name])
    ELSE Return(Num("int", 0, 1))

_eval_const(nd, context) ==
    IF nd.name \in DOMAIN context.constants
    THEN Return(context.constants[nd.name])
    ELSE Raise(EvaluationException(<<"unknown constant", nd.name>>, None))

_eval_unary(nd, context, acceptsFloat) ==
    IF nd.op \in {OP_POSITIVE, OP_NEGATIVE, OP_FACTORIAL}
    THEN LET v == _eval_node(nd.child, context, acceptsFloat) IN
         IF v.raised THEN v ELSE OP_FUNCTIONS_UNARY(nd.op, v.val, acceptsFloat)
    ELSE Raise(EvaluationException(<<"unsupported unary operator", nd.op>>, None))

\* variant: a complex result is reported as a value error of the operator
_eval_binary_complex_is_value_error(nd, context, acceptsFloat) ==
    IF nd.op \in {OP_ADD, OP_MINUS, OP_MULTIPLY, OP_DIVIDE, OP_POWER, OP_MOD}
    THEN LET v_left == _eval_node(nd.left, context, acceptsFloat) IN
         IF v_left.raised THEN v_left
         ELSE LET v_right == _eval_node(nd.right, context, acceptsFloat) IN
              IF v_right.raised THEN v_right
              ELSE LET result == OP_FUNCTIONS_BINARY(nd.op, v_left.val, v_right.val) IN
                   IF result.raised THEN result
                   ELSE IF result.val.k = "complex"
                   THEN Raise(ValueError)
                   ELSE result
    ELSE Raise(EvaluationException(<<"unsupported binary operator", nd.op>>, None))

_eval_binary(nd, context, acceptsFloat) ==
    IF nd.op \in {OP_ADD, OP_MINUS, OP_MULTIPLY, OP_DIVIDE, OP_POWER, OP_MOD}
    THEN LET v_left == _eval_node(nd.left, context, acceptsFloat) IN
         IF v_left.raised THEN v_left
         ELSE LET v_right == _eval_node(nd.right, context, acceptsFloat) IN
              IF v_right.raised THEN v_right
              ELSE LET result == OP_FUNCTIONS_BINARY(nd.op, v_left.val, v_right.val) IN
                   IF result.raised THEN result
                   ELSE IF result.val.k = "complex"
                   THEN Raise(EvaluationException(<<"invalid expression">>, None))
                   ELSE result
    ELSE Raise(EvaluationException(<<"unsupported binary operator", nd.op>>, None))

\* variant: the arguments are resolved from the last to the first
_eval_args_right_to_left(args, context, acceptsFloat) ==
    IF args = <<>> THEN Return(<<>>)
    ELSE LET rest == _eval_args(Tail(args), context, acceptsFloat) IN
         IF rest.raised THEN rest
         ELSE LET v == _eval_node(Head(args), context, acceptsFloat) IN
              IF v.raised THEN v ELSE Return(<<v.val>> \o rest.val)

\* the list comprehension that resolves the arguments, in order
_eval_args(args, context, acceptsFloat) ==
    IF args = <<>> THEN Return(<<>>)
    ELSE LET v == _eval_node(Head(args), context, acceptsFloat) IN
         IF v.raised THEN v
         ELSE LET rest == _eval_args(Tail(args), context, acceptsFloat) IN
              IF rest.raised THEN rest ELSE Return(<<v.val>> \o rest.val)

\* variant: only the lower bound of the argument count is checked
argc_accepted_no_upper_bound(min_argc, argc, max_argc) == min_argc <= argc

\* the spec validation min_argc <= len(node.args) <= max_argc
argc_accepted(min_argc, argc, max_argc) == min_argc <= argc /\ argc <= max_argc

_eval_func_call(nd, context, acceptsFloat) ==
    IF nd.id \in DOMAIN context.functions
    THEN LET fun == context.functions[nd.id]
             max_argc == fun.argc
             min_argc == max_argc - fun.defaults
         IN  IF argc_accepted(min_argc, Len(nd.args), max_argc)
             THEN LET values == _eval_args(nd.args, context, acceptsFloat) IN
                  IF values.raised THEN values ELSE Call(fun, values.val)
             ELSE Raise(EvaluationException(
                        <<"incorrect number of arguments passed into function", nd.id>>, None))
    ELSE Raise(EvaluationException(<<"unsupported function", nd.id>>, None))

_eval_node(nd, context, acceptsFloat) ==
    CASE nd.type = "NumberNode" -> wrap_errors(_eval_number(nd))
      [] nd.type = "NameConstantNode" -> wrap_errors(_eval_const(nd, context))
      [] nd.type = "BinaryOpNode" -> wrap_errors(_eval_binary(nd, context, acceptsFloat))
      [] nd.type = "UnaryOpNode" -> wrap_errors(_eval_unary(nd, context, acceptsFloat))
      [] nd.type = "FuncCallNode" -> wrap_errors(_eval_func_call(nd, context, acceptsFloat))
      [] OTHER -> Raise(EvaluationException(<<"invalid inputs">>, None))

\* Evaluator(context).evaluate(exp_tree) for a node tree
evaluate(exp_tree, context, acceptsFloat) == _eval_node(exp_tree, context, acceptsFloat)

(***************************************************************************)
(* calculator/ui/runtime.py.  A string is a sequence of characters.        *)
(***************************************************************************)
ZERO == <<"0">>

DOT == "."

DigitChar(k) == CHOOSE c \in DigitChars : DigitVal(c) = k

\* str(n) of an int n >= 0
RECURSIVE StrOfNat(_)
StrOfNat(n) == IF n < 10 THEN <<DigitChar(n)>> ELSE StrOfNat(n \div 10) \o <<DigitChar(n % 10)>>

\* s.rstrip(ZERO)
RECURSIVE rstrip_zero(_)
rstrip_zero(s) ==
    IF s # <<>> /\ s[Len(s)] = ZERO[1] THEN rstrip_zero(SubSeq(s, 1, Len(s) - 1)) ELSE s

\* the values whose formatting is modelled: a number with at most four
\* decimals (str of a float writes the others with up to 17 digits or an
\* exponent)
FormatModelled(v) == v.k = "num" /\ 10000 % v.d = 0

\* str(n) of the float of value v (FormatModelled): sign, integer part, dot
\* and the decimals, at least one
PyStrFloat(v) ==
    LET scaled == Abs(v.n) * (10000 \div v.d)
        whole == scaled \div 10000
        frac == scaled % 10000
        decimals == <<DigitChar(frac \div 1000), DigitChar((frac \div 100) % 10),
                      DigitChar((frac \div 10) % 10), DigitChar(frac % 10)>>
        kept == rstrip_zero(decimals)
    IN  (IF v.n < 0 THEN <<"-">> ELSE <<>>) \o StrOfNat(whole) \o <<DOT>>
        \o (IF kept = <<>> THEN ZERO ELSE kept)

\* formatNumber(n, 16, 12): round(n * 10^16) / 10^16 is a float and, like
\* round(n, 12), leaves a value of at most four decimals as it is; then the
\* trailing zeros and a trailing dot of str(n) are dropped
formatNumber(v) ==
    LET s == PyStrFloat(v) IN
    IF \E k \in 1..Len(s) : s[k] = DOT
    THEN LET t == rstrip_zero(s) IN
         IF t[Len(t)] = DOT THEN SubSeq(t, 1, Len(t) - 1) ELSE t
    ELSE s

\* a character that \w matches
IsWordChar(c) == isalpha(c) \/ isnumeric(c) \/ c = "_"

\* checkFunc(content): group 1 of re.match(r'(\w+)\(.+\)', content), '' when
\* there is no match
checkFunc(content) ==
    LET k == IndexOf(content, {c \in {content[j] : j \in 1..Len(content)} : ~IsWordChar(c)}) IN
    IF /\ k >= 1
       /\ k < Len(content)
       /\ At(content, k) = "("
       /\ \E j \in (k + 2)..(Len(content) - 1) : At(content, j) = ")"
    THEN Slice(content, 0, k)
    ELSE <<>>

StdRTStates ==
    [ANY |-> 1, BINOP |-> 2, PREOP |-> 3, POSTOP |-> 4, FUNC |-> 5, L_BRACKET |-> 6,
     R_BRACKET |-> 7, CONST |-> 8, EVAL |-> 20, ERROR |-> 21]

(***************************************************************************)
(* CalculatorRuntimeStandard.  The runtime is [stack, input, hint,         *)
(* unclose]: _stateStack, model.input, model.hint and _uncloseBrackets; a  *)
(* method is an operator from the runtime before the call to the runtime   *)
(* after it.                                                                *)
(***************************************************************************)
\* CalculatorRuntimeStandard.__init__ and CalculatorRuntimeModel.__init__
Constructed == [stack |-> <<StdRTStates.ANY>>, input |-> ZERO, hint |-> <<>>, unclose |-> 0]

_resetState(rt) == [rt EXCEPT !.stack = <<StdRTStates.ANY>>]

_peekState(rt) == rt.stack[Len(rt.stack)]

_matchState(rt, codes) == _peekState(rt) \in codes

_setState(rt, code) ==
    LET r1 == IF code \in {StdRTStates.EVAL, StdRTStates.ERROR, StdRTStates.BINOP}
              THEN _resetState(rt) ELSE rt
    IN  IF code # StdRTStates.ANY \/ code # _peekState(r1)
        THEN IF code = StdRTStates.BINOP
             THEN [r1 EXCEPT !.stack = Append(@, code)]
             ELSE LET r2 == IF _peekState(r1) = StdRTStates.BINOP
                            THEN [r1 EXCEPT !.stack = Append(@, StdRTStates.ANY)]
                            ELSE r1
                  IN  [r2 EXCEPT !.stack = Append(@, code)]
        ELSE r1

_popState(rt) ==
    IF Len(rt.stack) > 1 THEN [rt EXCEPT !.stack = SubSeq(@, 1, Len(@) - 1)] ELSE rt

justEvaluated(rt) == _peekState(rt) = StdRTStates.EVAL

isError(rt) == _peekState(rt) = StdRTStates.ERROR

_clearEval(rt) == IF justEvaluated(rt) THEN _popState([rt EXCEPT !.hint = <<>>]) ELSE rt

_clearInput(rt) ==
    LET closed == {k \in 1..Len(rt.stack) : rt.stack[k] = StdRTStates.R_BRACKET} IN
    _resetState([rt EXCEPT !.unclose = @ + Cardinality(closed), !.input = ZERO])

reset(rt) == [_resetState(rt) EXCEPT !.input = ZERO, !.hint = <<>>, !.unclose = 0]

_canChangeNumber(rt) ==
    ~_matchState(rt, {StdRTStates.POSTOP, StdRTStates.FUNC, StdRTStates.CONST,
                      StdRTStates.R_BRACKET})

_canEvaluate(rt) ==
    IF _matchState(rt, {StdRTStates.EVAL, StdRTStates.ERROR}) THEN FALSE
    ELSE IF rt.hint # <<>> THEN TRUE
    ELSE \E k \in 1..Len(rt.stack) :
            rt.stack[k] # StdRTStates.ANY /\ rt.stack[k] # StdRTStates.PREOP

\* CalculatorRuntimeModel.update
update(rt, input_, hint) == [rt EXCEPT !.input = input_, !.hint = hint]

_clearHandle(rt) == reset(rt)

_inputClearHandle(rt) == IF justEvaluated(rt) THEN reset(rt) ELSE _clearInput(rt)

_eraseHandle(rt) ==
    LET current == rt.input
        state == _peekState(rt)
    IN  IF isError(rt) THEN reset(rt)
        ELSE IF state = StdRTStates.FUNC
        THEN LET funcName == checkFunc(current) IN
             _popState([rt EXCEPT !.input = Slice(current, Len(funcName) + 1, Len(current) - 1)])
        ELSE IF state = StdRTStates.PREOP
        THEN _popState([rt EXCEPT !.input = Slice(current, 1, Len(current))])
        ELSE IF state = StdRTStates.POSTOP
        THEN _popState([rt EXCEPT !.input = Slice(current, 0, Len(current) - 1)])
        ELSE IF state = StdRTStates.R_BRACKET
        THEN [_popState([rt EXCEPT !.input = Slice(current, 0, Len(current) - 1)])
                 EXCEPT !.unclose = @ + 1]
        ELSE LET r1 == _clearEval(rt) IN
             IF Len(current) > 1
             THEN LET cut == Slice(current, 0, Len(current) - 1)
                      left == IF Len(cut) = 1 /\ ~isnumeric(cut[1]) THEN ZERO ELSE cut
                  IN  _setState([r1 EXCEPT !.input = left], StdRTStates.ANY)
             ELSE _setState([r1 EXCEPT !.input = ZERO], StdRTStates.ANY)

_numberHandle(rt, number) ==
    IF _canChangeNumber(rt)
    THEN LET r1 == IF justEvaluated(rt) \/ isError(rt) THEN update(rt, number, <<>>)
                   ELSE IF number = ZERO
                   THEN IF rt.input # ZERO THEN [rt EXCEPT !.input = @ \o ZERO] ELSE rt
                   ELSE IF rt.input = ZERO THEN [rt EXCEPT !.input = number]
                   ELSE [rt EXCEPT !.input = @ \o number]
         IN  _setState(r1, StdRTStates.ANY)
    ELSE rt

_dotHandle(rt) ==
    IF ~isError(rt) /\ _canChangeNumber(rt)
    THEN LET r1 == IF justEvaluated(rt)
                   THEN _setState(update(rt, <<"0", ".">>, <<>>), StdRTStates.ANY)
                   ELSE rt
         IN  IF \A k \in 1..Len(r1.input) : r1.input[k] # DOT
             THEN _setState([r1 EXCEPT !.input = @ \o <<DOT>>], StdRTStates.ANY)
             ELSE r1
    ELSE rt

_constantHandle(rt, name) ==
    LET r1 == IF isError(rt) \/ justEvaluated(rt) THEN reset(rt) ELSE _clearInput(rt) IN
    _setState([r1 EXCEPT !.input = name], StdRTStates.CONST)

_binaryOpHandle(rt, op) ==
    IF ~isError(rt)
    THEN IF _peekState(rt) = StdRTStates.BINOP
         THEN [rt EXCEPT !.hint = Slice(@, 0, Len(@) - 1) \o <<op>>]
         ELSE LET r1 == IF justEvaluated(rt)
                        THEN update(rt, ZERO, rt.input \o <<" ", op>>)
                        ELSE LET hint == IF rt.hint # <<>> /\ rt.hint[Len(rt.hint)] = "("
                                         THEN rt.hint ELSE rt.hint \o <<" ">>
                             IN  update(rt, ZERO, hint \o rt.input \o <<" ", op>>)
              IN  _setState(r1, StdRTStates.BINOP)
    ELSE rt

_factorialHandle(rt) ==
    IF ~isError(rt) /\ _peekState(rt) # StdRTStates.POSTOP
    THEN LET r1 == _clearEval(rt) IN
         _setState([r1 EXCEPT !.input = @ \o <<"!">>], StdRTStates.POSTOP)
    ELSE rt

_unaryFuncHandle(rt, func) ==
    IF ~isError(rt) /\ _peekState(rt) # StdRTStates.R_BRACKET
    THEN LET r1 == _clearEval(rt) IN
         _setState([r1 EXCEPT !.input = func \o <<"(">> \o @ \o <<")">>], StdRTStates.FUNC)
    ELSE rt

_leftBracketHandle(rt) ==
    IF ~isError(rt)
    THEN LET r1 == _clearEval(rt)
             r2 == IF r1.hint = <<>> THEN [r1 EXCEPT !.hint = <<"(">>]
                   ELSE LET r3 == [r1 EXCEPT !.hint = @ \o <<" ", "(">>] IN
                        IF _peekState(r3) = StdRTStates.BINOP THEN _popState(r3) ELSE r3
         IN  [r2 EXCEPT !.unclose = @ + 1]
    ELSE rt

_rightBracketHandle(rt) ==
    IF rt.unclose > 0
    THEN _setState([rt EXCEPT !.input = @ \o <<")">>, !.unclose = @ - 1], StdRTStates.R_BRACKET)
    ELSE rt

\* the part of _negetHandle before the call of _popTopMostState: the runtime
\* it leaves, whether model.input[0] raised IndexError, and whether
\* _popTopMostState(PREOP) is called next
_negetHandle(rt) ==
    IF ~isError(rt)
    THEN LET r1 == _clearEval(rt) IN
         IF r1.input # ZERO
         THEN IF r1.input = <<>>
              THEN [rt |-> r1, raised |-> TRUE, calls |-> FALSE]
              ELSE IF r1.input[1] = "-"
              THEN [rt |-> [r1 EXCEPT !.input = Tail(@)], raised |-> FALSE, calls |-> TRUE]
              ELSE [rt |-> _setState([r1 EXCEPT !.input = <<"-">> \o @], StdRTStates.PREOP),
                    raised |-> FALSE, calls |-> FALSE]
         ELSE [rt |-> r1, raised |-> FALSE, calls |-> FALSE]
    ELSE [rt |-> rt, raised |-> FALSE, calls |-> FALSE]

\* stack.pop(i)
pop_at(stack, i) == Slice(stack, 0, i) \o Slice(stack, i + 1, Len(stack))

\* one test of the while condition of _popTopMostState(code), with local i,
\* and the body or the else clause that follows it: the stack and i after
\* it, and whether the method has returned
_popTopMostState_step(stack, code, i) ==
    IF i > 1
    THEN IF At(stack, i) = code
         THEN LET s1 == pop_at(stack, i)
                  s2 == IF i < Len(s1)
                        THEN IF At(s1, i) = StdRTStates.ANY /\ At(s1, i - 1) = StdRTStates.ANY
                             THEN pop_at(s1, i) ELSE s1
                        ELSE s1
              IN  [stack |-> s2, i |-> i, returned |-> TRUE, result |-> TRUE]
         ELSE [stack |-> stack, i |-> i, returned |-> FALSE, result |-> FALSE]
    ELSE [stack |-> stack, i |-> i, returned |-> TRUE, result |-> FALSE]

\* self._evaluator.evaluate(expr) of CalculatorRuntimePro
evaluator_evaluate(expr, context, acceptsFloat) ==
    LET exp_tree == parse_expression(expr) IN
    IF exp_tree.raised THEN exp_tree ELSE evaluate(exp_tree.val, context, acceptsFloat)

checkInnerErrType(err, cls) == err.inner # None /\ err.inner.type = cls

\* evaluate() once _canEvaluate() holds, for the outcome r of the evaluator
evaluate_with(rt, expr, r) ==
    LET r1 == IF ~r.raised
              THEN _setState(update(rt, formatNumber(r.val), expr \o <<" ", "=">>),
                             StdRTStates.EVAL)
              ELSE LET message ==
                           IF r.exc.type = "EvaluationException"
                           THEN IF checkInnerErrType(r.exc, "ZeroDivisionError")
                                THEN <<"E", "R", "R", "O", "R", ":", " ", "Z", "e", "r", "o", " ",
                                       "D", "i", "v", "i", "s", "i", "o", "n">>
                                ELSE IF checkInnerErrType(r.exc, "ValueError")
                                THEN <<"E", "R", "R", "O", "R", ":", " ", "I", "n", "v", "a", "l",
                                       "i", "d", " ", "I", "n", "p", "u", "t">>
                                ELSE <<"E", "R", "R", "O", "R">>
                           ELSE <<"E", "R", "R", "O", "R">>
                   IN  _setState(update(rt, message, <<>>), StdRTStates.ERROR)
    IN  [r1 EXCEPT !.unclose = 0]

\* the expression evaluate() hands to the evaluator
expr_of(rt) ==
    LET expr == IF rt.hint = <<>> THEN rt.input ELSE rt.hint \o <<" ">> \o rt.input IN
    expr \o [k \in 1..rt.unclose |-> ")"]

(***************************************************************************)
(* The inputs.  A run takes one source string through                     *)
(* Evaluator.evaluate(str): tokenize, build_expression_tree, _eval_node.  *)
(***************************************************************************)
MaxLen == 3

MaxOps == 3

Alphabet == {"1", "2", ".", "e", "a", "+", "-", "*", "!", "(", ")", ",", " ", "#"}

\* every string over Alphabet of length at most MaxLen
FreeSources == UNION {[1..k -> Alphabet] : k \in 0..MaxLen}

ChainDigits == {"2", "3"}

ChainOps == DOMAIN BINOP_TABLE

Chain(ds, os) ==
    [j \in 1..(2 * Len(os) + 1) |-> IF j % 2 = 1 THEN ds[(j + 1) \div 2] ELSE os[j \div 2]]

\* bracket-free chains d op d op ... d of at most MaxOps binary operators
ChainSources ==
    UNION {{Chain(ds, os) : ds \in [1..(k + 1) -> ChainDigits], os \in [1..k -> ChainOps]} :
           k \in 1..MaxOps}

\* d op (d op d) op d, d op (d) op d and (d op d) op d
BracketSources ==
    {<<a, o1, "(", b, o2, c, ")", o3, d>> :
        a \in {"2"}, b \in {"1"}, c \in ChainDigits, d \in {"4"},
        o1 \in ChainOps, o2 \in ChainOps, o3 \in ChainOps}
    \cup {<<a, o1, "(", b, ")", o2, c>> :
        a \in ChainDigits, b \in ChainDigits, c \in ChainDigits, o1 \in ChainOps, o2 \in ChainOps}
    \cup {<<"(", a, o1, b, ")", o2, c>> :
        a \in ChainDigits, b \in ChainDigits, c \in ChainDigits, o1 \in ChainOps, o2 \in ChainOps}

\* prefix and postfix operators around one operand
UnarySources ==
    {<<d1, o, p, d2, "!">> : d1 \in {"1", "2"}, o \in ChainOps, p \in {"+", "-"}, d2 \in {"3", "4"}}
    \cup {<<"(", p, d, ")", "!">> : p \in {"+", "-"}, d \in {"2", "3"}}
    \cup {<<p, "(", q, d, ")", "!">> : p \in {"+", "-"}, q \in {"+", "-"}, d \in {"2", "3"}}
    \cup {<<"(", d, "!", ")", "!">> : d \in {"2", "3"}}
    \cup {<<p, d, "!", o, e>> : p \in {"+", "-"}, d \in {"2", "3"}, o \in ChainOps, e \in {"2"}}

\* expressions of the test suite and of the documentation
ExampleSources ==
    { <<"1", " ", "+", " ", "2", " ", "*", " ", "3">>,
      <<"(", "1", " ", "+", " ", "2", ")", " ", "*", " ", "3">>,
      <<"1", " ", "/", " ", "2", " ", "*", " ", "4">>,
      <<"1", " ", "-", " ", "2", " ", "-", " ", "3", " ", "-", " ", "4">>,
      <<"8", " ", "/", " ", "2", " ", "*", " ", "2", " ", "/", " ", "2">>,
      <<"2", " ", "*", " ", "(", "1", " ", "+", " ", "2", ")", " ", "+", " ", "4">>,
      <<"1", "0", " ", "-", " ", "(", "2", ")", " ", "+", " ", "3">>,
      <<"2", " ", "+", " ", "-", "3", "!">>,
      <<"1", " ", "+", " ", "-", "4", "!">>,
      <<"1", " ", "+">>,
      <<"1", " ", "+", " ", "(">>,
      <<"1", "e", "+">>,
      <<"1", " ", "+", " ", "0", "a", " ", "-", " ", "1">>,
      <<"1", " ", "+", " ", "a", "_", "0", " ", "-", " ", "1">>,
      <<"1", "0", "0">>,
      <<"1", "0", "0", ".">>,
      <<".", "2">>,
      <<"3", "e", "1", "0">>,
      <<"3", ".", "1", "e", "-", "5">>,
      <<"1", "0", "0", " ", "*", " ", "(", "2", "0", "0", " ", "+", " ", "1", "0", ")">>,
      <<"1", "+", "2", " ", "*", " ", "2", ".", "2", " ", "-", " ", "1", "0">> }

MaxArgs == 3

FuncNames ==
    { <<"m", "u", "l", "t">>,
      <<"a", "b", "s">>,
      <<"i", "n", "v", "e", "r", "t">>,
      <<"s", "q", "r", "t">>,
      <<"f", "o", "o">>,
      <<"e">> }

ArgTexts == { <<"0">>,
      <<"4">>,
      <<"-", "1">>,
      <<"a">> }

RECURSIVE JoinArgs(_)
JoinArgs(texts) ==
    IF texts = <<>> THEN <<>>
    ELSE IF Len(texts) = 1 THEN texts[1]
    ELSE texts[1] \o <<",">> \o JoinArgs(Tail(texts))

\* calls name(arg, ..., arg) with at most MaxArgs arguments
FuncSources ==
    UNION {{name \o <<"(">> \o JoinArgs(texts) \o <<")">> :
               name \in FuncNames, texts \in [1..k -> ArgTexts]} : k \in 0..MaxArgs}

\* sub-expressions whose evaluation fails or is complex, and two that succeed
Cores ==
    { <<"1", "/", "0">>,
      <<"1", "%", "0">>,
      <<"(", "0", "-", "3", ")", "!">>,
      <<"i", "n", "v", "e", "r", "t", "(", "0", ")">>,
      <<"s", "q", "r", "t", "(", "0", "-", "4", ")">>,
      <<"(", "-", "1", ")", "^", ".", "5">>,
      <<"-", "4", "^", ".", "5">>,
      <<"0", "^", "-", "1">>,
      <<"2", "-", "5">>,
      <<"s", "q", "r", "t", "(", "4", ")">> }

\* a core at the top of the tree and below operators, brackets and calls
NestedSources ==
    UNION {{ c, <<"2", "+">> \o c, <<"(">> \o c \o <<")", "*", "3">>, <<"-", "(">> \o c \o <<")">>,
             <<"(">> \o c \o <<")", "!">>, <<"a", "b", "s", "(">> \o c \o <<")">>,
             <<"m", "u", "l", "t", "(", "1", ",">> \o c \o <<")">>,
             <<"f", "(">> \o c \o <<")">>, c \o <<"+", "a">>, <<"a", "+">> \o c,
             <<"(">> \o c \o <<")", "+", "(", "1", "/", "0", ")">> } : c \in Cores}

Heads == { <<>>,
      <<"1", "+">>,
      <<"(">>,
      <<"f", "(">>,
      <<"2", "*", "(">>,
      <<"-">>,
      <<"f", "(", "1", ",">> }

Bodies ==
    { <<"(", "1">>,
      <<"(", "(", "1", ")">>,
      <<"f", "(", "1">>,
      <<"f", "(", "1", ",">>,
      <<"f", "(">>,
      <<"1", ")">>,
      <<"(", "1", ")", ")">>,
      <<"1", " ", "2">>,
      <<"1", " ", "a">>,
      <<"a", " ", "1">>,
      <<"1", "(", "2", ")">>,
      <<"(", "1", ")", "(", "2", ")">>,
      <<"3", "!", "!">>,
      <<"3", "!", " ", "4">>,
      <<"!">>,
      <<"!", "3">>,
      <<"-", "!", "3">>,
      <<"1", ",", "2">>,
      <<"1", "+", "1", ",", "2">>,
      <<"-", "-", "3">>,
      <<"-", "+", "3">>,
      <<"(", "1", ",", "2", ")">>,
      <<"1", "+", "(", "2", ",", "3", ")">>,
      <<"f", "(", "(", "1", ")">>,
      <<"3", "!", " ", "4">>, <<"1", " ", "e">>, <<"(", "1", ")", "2">>, <<"1", "+", "2", " ", "3">>, <<"2", ",", "3", " ", "4">>,
      <<"(", "f", "(", "1", ")">> }

\* malformed expressions: a body after a well-formed head
MalformedSources == {h \o b : h \in Heads, b \in Bodies}

\* expressions of the evaluator and node-tree tests, and nested calls like them
TestSources ==
    { <<"a", "b", "s", "(", "2", "-", "5", ")">>,
      <<"a", "b", "s", " ", "(", "c", "o", "s", "(", "0", ")", " ", ")">>,
      <<"1", " ", "-", " ", "a", "b", "s", "(", "-", "3", ")", " ", "*", " ", "2">>,
      <<"1", " ", "+", " ", "a", " ", "-", " ", "2">>,
      <<"1", " ", "+", " ", "f", "o", "o", "(", "1", "0", ")", " ", "*", " ", "2">>,
      <<"a", "b", "s", "(", "1", ",", " ", "-", "2", ")">>,
      <<"m", "u", "l", "t", "(", "1", "0", ")">>,
      <<"m", "u", "l", "t", "(", "1", "0", ",", " ", "3", ")">>,
      <<"m", "u", "l", "t", "(", ")">>,
      <<"m", "u", "l", "t", "(", "1", ",", " ", "2", ",", " ", "3", ")">>,
      <<"1", " ", "/", " ", "0">>,
      <<"(", "-", "1", ")", " ", "^", " ", "0", ".", "5">>,
      <<"1", " ", "+", " ", "p", "o", "w", "(", "1", "0", "0", ",", " ", "2">>,
      <<"1", " ", "+", " ", "0", "(", "1", "0", "0", ")">>,
      <<"1", " ", "+", " ", "e", "(", "1", "0", "0", ")">>,
      <<"1", "+", " ", "1", ",", " ", "2", " ", "*", " ", "2">>,
      <<"(", "1", "+", "2", " ", "*", " ", "3">>,
      <<"1", " ", "+", " ", "(", "1", " ", "*", " ", "2", " ", "+", " ", "3", ")", ")", " ", "-", " ", "3">>,
      <<"1", " ", "+", " ", "!", "4">>,
      <<"1", " ", "+", " ", "3", "!", " ", "*", " ", "2">>,
      <<"(", "1", " ", "+", " ", "2", ")", "!", " ", "/", " ", "3">>,
      <<"-", "-", "3">>,
      <<"-", "+", "3">>,
      <<"1", " ", "-", " ", "-", " ", "-", "3">>,
      <<"1", " ", "+", " ", "e", "^", "2", " ", "-", " ", "2">>,
      <<"f", "(", "1", ",", "2", ",", "g", "(", "3", ")", ")">>,
      <<"f", "(", "g", "(", ")", ",", "2", ")">>,
      <<"a", "b", "s", "(", "-", "(", "1", "/", "0", ")", ")">>,
      <<"2", " ", "+", " ", "(", "1", " ", "/", " ", "0", ")", " ", "*", " ", "3">>,
      <<"f", "o", "o", "(", "1", " ", "/", " ", "0", ")">>,
      <<"a", "b", "s", "(", "1", " ", "/", " ", "0", ",", " ", "2", ")">>,
      <<"a", " ", "+", " ", "1", " ", "/", " ", "0">>,
      <<"1", " ", "/", " ", "0", " ", "+", " ", "a">>,
      <<"m", "u", "l", "t", "(", "a", ",", " ", "1", " ", "/", " ", "0", ")">>,
      <<"m", "u", "l", "t", "(", "1", " ", "/", " ", "0", ",", " ", "a", ")">>,
      <<"2", " ", "*", " ", "-", "3", "!", " ", "+", " ", "4">> }

\* expressions whose tokens are separated by spaces that matter to the scan
SpacedSources ==
    { <<"1", "e", "1", " ", "-", "2">>,
      <<"1", " ", "-", "1">>,
      <<"1", ".", " ", "+", "2">>,
      <<"a", " ", "(", "1", ")">>,
      <<"2", " ", "e">>,
      <<"-", " ", "3">>,
      <<"3", " ", "!">>,
      <<"1", "e", "1", " ", "-", " ", "2">>,
      <<".", "5", " ", "e">>,
      <<"(", " ", "1", " ", ")">>,
      <<"a", "b", "s", " ", "(", " ", "-", " ", "1", " ", ")">>,
      <<"1", " ", "+", " ", "2", "e">>,
      <<"e", " ", "1">> }

\* number literals
Literals ==
    { <<"1", "2">>, <<"1", ".">>, <<"1", ".", "5">>, <<".", "5">>, <<"1", "e", "2">>,
      <<"1", "e", "-", "2">>, <<"1", ".", "5", "e", "+", "2">>, <<"2", "E", "1">> }

\* a literal after nothing or after an operator, followed by one character
\* of any kind and by a digit, or by nothing
NumberSources ==
    {head \o l \o tail : head \in {<<>>, <<"2", " ", "+">>}, l \in Literals,
                         tail \in {<<>>} \cup {<<c>> : c \in Alphabet \cup {"E"}}
                                         \cup {<<c, "1">> : c \in Alphabet \cup {"E"}}}

Sources ==
    SpacedSources \cup FreeSources \cup ChainSources \cup BracketSources \cup UnarySources \cup ExampleSources
        \cup FuncSources \cup NestedSources \cup MalformedSources \cup TestSources
        \cup NumberSources

Init ==
    /\ exp \in Sources
    /\ pc = "start"
    /\ token_list = <<>>
    /\ node = None
    /\ obj_heap = <<>>
    /\ obj_root = 0
    /\ obj_peak = 0
    /\ _context = None
    /\ value = None
    /\ exc = None
    /\ _stateStack = Constructed.stack
    /\ model_input = Constructed.input
    /\ model_hint = Constructed.hint
    /\ _uncloseBrackets = Constructed.unclose
    /\ handler_pc = "idle"
    /\ pop_i = 0
    /\ key_count = 0

\* parser.tokenize(exp)
Tokenize ==
    /\ pc = "start"
    /\ LET r == tokenize(exp) IN
       IF r.raised
       THEN /\ pc' = "tokenize_raised"
            /\ exc' = r.exc
            /\ token_list' = token_list
       ELSE /\ pc' = "tokenized"
            /\ token_list' = r.val
            /\ exc' = exc
    /\ UNCHANGED <<exp, node, obj_heap, obj_root, obj_peak, _context, value>>
    /\ UNCHANGED rt_vars

\* parser.build_expression_tree(token_list)
BuildExpressionTree ==
    /\ pc = "tokenized"
    /\ \E r \in {build_expression_tree(token_list)} :
       IF r.raised
       THEN /\ pc' = "build_raised"
            /\ exc' = r.exc
            /\ node' = node
            /\ UNCHANGED <<obj_heap, obj_root, obj_peak>>
       ELSE /\ pc' = "parsed"
            /\ node' = r.val
            /\ \E o \in {build_expression_tree_obj(token_list).val} :
               /\ obj_heap' = o.heap
               /\ obj_root' = o.node
               /\ obj_peak' = o.peak
            /\ exc' = exc
    /\ UNCHANGED <<exp, token_list, _context, value>>
    /\ UNCHANGED rt_vars

\* Evaluator(ctx).evaluate(node)
Evaluate ==
    /\ pc = "parsed"
    /\ \E acceptsFloat \in BOOLEAN, ctx \in Contexts :
         LET r == evaluate(node, ctx, acceptsFloat) IN
         /\ ~(r.raised /\ r.exc = Unmodelled)
         /\ _context' = ctx
         /\ IF r.raised
            THEN /\ pc' = "evaluate_raised"
                 /\ exc' = r.exc
                 /\ value' = value
            ELSE /\ pc' = "evaluated"
                 /\ value' = r.val
                 /\ exc' = exc
    /\ UNCHANGED <<exp, token_list, node, obj_heap, obj_root, obj_peak>>
    /\ UNCHANGED rt_vars

Next == Tokenize \/ BuildExpressionTree \/ Evaluate

Spec == Init /\ [][Next]_vars

(***************************************************************************)
(* The keys.  A run of the runtime presses at most MaxKeys keys of         *)
(* CalculatorRuntimePro, one handler at a time; the loop of                *)
(* _popTopMostState takes one step for each test of its condition.  exc is *)
(* the exception that left the last handler, None if it returned.          *)
(***************************************************************************)
MaxKeys == 4

NumberKeys == {"0", "3", "5"}

ConstantKeys == {<<"e">>}

BinaryOpKeys == {OP_ADD, OP_DIVIDE}

FuncKeys == {<<"l", "n">>}

ev_vars == <<exp, pc, token_list, node, obj_heap, obj_root, obj_peak, _context, value>>

\* the runtime object as the methods take it
RT ==
    [stack |-> _stateStack, input |-> model_input, hint |-> model_hint,
     unclose |-> _uncloseBrackets]

InitRuntime ==
    /\ exp = <<>>
    /\ pc = "runtime"
    /\ token_list = <<>>
    /\ node = None
    /\ obj_heap = <<>>
    /\ obj_root = 0
    /\ obj_peak = 0
    /\ _context = ProContext
    /\ value = None
    /\ exc = None
    /\ _stateStack = Constructed.stack
    /\ model_input = Constructed.input
    /\ model_hint = Constructed.hint
    /\ _uncloseBrackets = Constructed.unclose
    /\ handler_pc = "idle"
    /\ pop_i = 0
    /\ key_count = 0

\* the AC key
ClearHandle ==
    /\ handler_pc = "idle"
    /\ key_count < MaxKeys
    /\ \E rt \in {_clearHandle(RT)} :
       /\ _stateStack' = rt.stack
       /\ model_input' = rt.input
       /\ model_hint' = rt.hint
       /\ _uncloseBrackets' = rt.unclose
    /\ key_count' = key_count + 1
    /\ exc' = None
    /\ UNCHANGED <<handler_pc, pop_i>>
    /\ UNCHANGED ev_vars

\* the C key
InputClearHandle ==
    /\ handler_pc = "idle"
    /\ key_count < MaxKeys
    /\ \E rt \in {_inputClearHandle(RT)} :
       /\ _stateStack' = rt.stack
       /\ model_input' = rt.input
       /\ model_hint' = rt.hint
       /\ _uncloseBrackets' = rt.unclose
    /\ key_count' = key_count + 1
    /\ exc' = None
    /\ UNCHANGED <<handler_pc, pop_i>>
    /\ UNCHANGED ev_vars

\* the DEL key
EraseHandle ==
    /\ handler_pc = "idle"
    /\ key_count < MaxKeys
    /\ \E rt \in {_eraseHandle(RT)} :
       /\ _stateStack' = rt.stack
       /\ model_input' = rt.input
       /\ model_hint' = rt.hint
       /\ _uncloseBrackets' = rt.unclose
    /\ key_count' = key_count + 1
    /\ exc' = None
    /\ UNCHANGED <<handler_pc, pop_i>>
    /\ UNCHANGED ev_vars

\* a digit key
NumberHandle ==
    /\ handler_pc = "idle"
    /\ key_count < MaxKeys
    /\ \E number \in NumberKeys :
         \E rt \in {_numberHandle(RT, <<number>>)} :
         /\ _stateStack' = rt.stack
         /\ model_input' = rt.input
         /\ model_hint' = rt.hint
         /\ _uncloseBrackets' = rt.unclose
    /\ key_count' = key_count + 1
    /\ exc' = None
    /\ UNCHANGED <<handler_pc, pop_i>>
    /\ UNCHANGED ev_vars

\* the '.' key
DotHandle ==
    /\ handler_pc = "idle"
    /\ key_count < MaxKeys
    /\ \E rt \in {_dotHandle(RT)} :
       /\ _stateStack' = rt.stack
       /\ model_input' = rt.input
       /\ model_hint' = rt.hint
       /\ _uncloseBrackets' = rt.unclose
    /\ key_count' = key_count + 1
    /\ exc' = None
    /\ UNCHANGED <<handler_pc, pop_i>>
    /\ UNCHANGED ev_vars

\* a constant key
ConstantHandle ==
    /\ handler_pc = "idle"
    /\ key_count < MaxKeys
    /\ \E name \in ConstantKeys :
         \E rt \in {_constantHandle(RT, name)} :
         /\ _stateStack' = rt.stack
         /\ model_input' = rt.input
         /\ model_hint' = rt.hint
         /\ _uncloseBrackets' = rt.unclose
    /\ key_count' = key_count + 1
    /\ exc' = None
    /\ UNCHANGED <<handler_pc, pop_i>>
    /\ UNCHANGED ev_vars

\* a binary operator key
BinaryOpHandle ==
    /\ handler_pc = "idle"
    /\ key_count < MaxKeys
    /\ \E op \in BinaryOpKeys :
         \E rt \in {_binaryOpHandle(RT, op)} :
         /\ _stateStack' = rt.stack
         /\ model_input' = rt.input
         /\ model_hint' = rt.hint
         /\ _uncloseBrackets' = rt.unclose
    /\ key_count' = key_count + 1
    /\ exc' = None
    /\ UNCHANGED <<handler_pc, pop_i>>
    /\ UNCHANGED ev_vars

\* the n! key
FactorialHandle ==
    /\ handler_pc = "idle"
    /\ key_count < MaxKeys
    /\ \E rt \in {_factorialHandle(RT)} :
       /\ _stateStack' = rt.stack
       /\ model_input' = rt.input
       /\ model_hint' = rt.hint
       /\ _uncloseBrackets' = rt.unclose
    /\ key_count' = key_count + 1
    /\ exc' = None
    /\ UNCHANGED <<handler_pc, pop_i>>
    /\ UNCHANGED ev_vars

\* a function key
UnaryFuncHandle ==
    /\ handler_pc = "idle"
    /\ key_count < MaxKeys
    /\ \E func \in FuncKeys :
         \E rt \in {_unaryFuncHandle(RT, func)} :
         /\ _stateStack' = rt.stack
         /\ model_input' = rt.input
         /\ model_hint' = rt.hint
         /\ _uncloseBrackets' = rt.unclose
    /\ key_count' = key_count + 1
    /\ exc' = None
    /\ UNCHANGED <<handler_pc, pop_i>>
    /\ UNCHANGED ev_vars

\* the '(' key
LeftBracketHandle ==
    /\ handler_pc = "idle"
    /\ key_count < MaxKeys
    /\ \E rt \in {_leftBracketHandle(RT)} :
       /\ _stateStack' = rt.stack
       /\ model_input' = rt.input
       /\ model_hint' = rt.hint
       /\ _uncloseBrackets' = rt.unclose
    /\ key_count' = key_count + 1
    /\ exc' = None
    /\ UNCHANGED <<handler_pc, pop_i>>
    /\ UNCHANGED ev_vars

\* the ')' key
RightBracketHandle ==
    /\ handler_pc = "idle"
    /\ key_count < MaxKeys
    /\ \E rt \in {_rightBracketHandle(RT)} :
       /\ _stateStack' = rt.stack
       /\ model_input' = rt.input
       /\ model_hint' = rt.hint
       /\ _uncloseBrackets' = rt.unclose
    /\ key_count' = key_count + 1
    /\ exc' = None
    /\ UNCHANGED <<handler_pc, pop_i>>
    /\ UNCHANGED ev_vars

\* the +/- key: _negetHandle up to its return or to the first test of the
\* loop of _popTopMostState(PREOP)
NegetHandle ==
    /\ handler_pc = "idle"
    /\ key_count < MaxKeys
    /\ \E o \in {_negetHandle(RT)} :
       /\ _stateStack' = o.rt.stack
       /\ model_input' = o.rt.input
       /\ model_hint' = o.rt.hint
       /\ _uncloseBrackets' = o.rt.unclose
       /\ exc' = IF o.raised THEN IndexError ELSE None
       /\ IF o.calls /\ Len(o.rt.stack) > 1
          THEN /\ handler_pc' = "_popTopMostState"
               /\ pop_i' = Len(o.rt.stack) - 1
          ELSE UNCHANGED <<handler_pc, pop_i>>
    /\ key_count' = key_count + 1
    /\ UNCHANGED ev_vars

\* one test of the loop of _popTopMostState(PREOP) inside _negetHandle
PopTopMostState ==
    /\ handler_pc = "_popTopMostState"
    /\ \E o \in {_popTopMostState_step(_stateStack, StdRTStates.PREOP, pop_i)} :
       /\ _stateStack' = o.stack
       /\ IF o.returned
          THEN /\ handler_pc' = "idle"
               /\ pop_i' = 0
          ELSE /\ handler_pc' = handler_pc
               /\ pop_i' = o.i
    /\ UNCHANGED <<model_input, model_hint, _uncloseBrackets, key_count, exc>>
    /\ UNCHANGED ev_vars

\* the '=' key: evaluate()
EvaluateHandle ==
    /\ handler_pc = "idle"
    /\ key_count < MaxKeys
    /\ IF _canEvaluate(RT)
       THEN \E acceptsFloat \in BOOLEAN, expr \in {expr_of(RT)} :
               \E r \in {evaluator_evaluate(expr, _context, acceptsFloat)} :
                  /\ IF r.raised THEN r.exc # Unmodelled ELSE FormatModelled(r.val)
                  /\ \E rt \in {evaluate_with(RT, expr, r)} :
                        /\ _stateStack' = rt.stack
                        /\ model_input' = rt.input
                        /\ model_hint' = rt.hint
                        /\ _uncloseBrackets' = rt.unclose
       ELSE UNCHANGED <<_stateStack, model_input, model_hint, _uncloseBrackets>>
    /\ key_count' = key_count + 1
    /\ exc' = None
    /\ UNCHANGED <<handler_pc, pop_i>>
    /\ UNCHANGED ev_vars

NextRuntime ==
    \/ ClearHandle
    \/ InputClearHandle
    \/ EraseHandle
    \/ NumberHandle
    \/ DotHandle
    \/ ConstantHandle
    \/ BinaryOpHandle
    \/ NegetHandle
    \/ PopTopMostState
    \/ FactorialHandle
    \/ UnaryFuncHandle
    \/ LeftBracketHandle
    \/ RightBracketHandle
    \/ EvaluateHandle

SpecRuntime == InitRuntime /\ [][NextRuntime]_vars

(***************************************************************************)
(* Vocabulary of the properties.                                           *)
(***************************************************************************)
Built == pc \in {"parsed", "evaluated", "evaluate_raised"}

Tokenized == pc \in {"tokenized", "build_raised"} \/ Built

IsParsingException(e) == e.type = "ParsingException"

\* the node of tree n that carries position p, None if there is none
RECURSIVE FindPos(_, _)
RECURSIVE FindPosIn(_, _)
FindPos(n, p) ==
    IF n.pos = p THEN n
    ELSE IF n.type = "BinaryOpNode"
    THEN IF FindPos(n.left, p) # None THEN FindPos(n.left, p) ELSE FindPos(n.right, p)
    ELSE IF n.type = "UnaryOpNode" THEN FindPos(n.child, p)
    ELSE IF n.type = "FuncCallNode" THEN FindPosIn(n.args, p)
    ELSE None

FindPosIn(ns, p) ==
    IF ns = <<>> THEN None
    ELSE IF FindPos(Head(ns), p) # None THEN FindPos(Head(ns), p)
    ELSE FindPosIn(Tail(ns), p)

\* one letter per token: N number, o binary operator, ( and ), ? other
ShapeOf(token) ==
    IF token.type = "TokenNumber" THEN "N"
    ELSE IF token.type = "TokenOpenBracket" THEN "("
    ELSE IF token.type = "TokenCloseBracket" THEN ")"
    ELSE IF token.type = "TokenSymbol" /\ token.symbol \in DOMAIN BINOP_TABLE THEN "o"
    ELSE "?"

Shape(tl) == [k \in 1..Len(tl) |-> ShapeOf(tl[k])]

\* number (operator number)*, at least one operator
IsChain(tl) ==
    /\ Len(tl) >= 3
    /\ Len(tl) % 2 = 1
    /\ \A k \in 1..Len(tl) : Shape(tl)[k] = (IF k % 2 = 1 THEN "N" ELSE "o")

Priority(token) == BINOP_TABLE[token.symbol].priority

\* the number of brackets open before token k, counted from token lo
DepthAt(tl, lo, k) ==
    Cardinality({j \in lo..(k - 1) : Shape(tl)[j] = "("})
    - Cardinality({j \in lo..(k - 1) : Shape(tl)[j] = ")"})

\* The standard reading of tokens lo..hi of an expression of numbers,
\* binary operators and brackets: the root is the rightmost operator of
\* lowest priority outside every bracket (equal priorities group from the
\* left); a bracketed expression is the reading of its inside.
RECURSIVE StdTree(_, _, _)
StdTree(tl, lo, hi) ==
    IF lo = hi THEN NumberNode(tl[lo].num, tl[lo].pos)
    ELSE LET ops == {k \in lo..hi : Shape(tl)[k] = "o" /\ DepthAt(tl, lo, k) = 0} IN
         IF ops = {} THEN StdTree(tl, lo + 1, hi - 1)
         ELSE LET low == {k \in ops : \A j \in ops : Priority(tl[k]) <= Priority(tl[j])}
                  root == CHOOSE k \in low : \A j \in low : j <= k
              IN  BinaryOpNode(tl[root].symbol, StdTree(tl, lo, root - 1),
                               StdTree(tl, root + 1, hi), tl[root].pos)

\* (((a1 op1 a2) op2 a3) ...) over the first 2k+1 tokens of a chain
RECURSIVE LeftNested(_, _)
LeftNested(tl, k) ==
    IF k = 0 THEN NumberNode(tl[1].num, tl[1].pos)
    ELSE BinaryOpNode(tl[2 * k].symbol, LeftNested(tl, k - 1),
                      NumberNode(tl[2 * k + 1].num, tl[2 * k + 1].pos), tl[2 * k].pos)

\* the value evaluate returns for a tree whose evaluation is modelled
ValueOfTree(tree) == evaluate(tree, EvaluatorContext, FALSE)

Src_1_plus_2_times_3 == <<"1", " ", "+", " ", "2", " ", "*", " ", "3">>

Src_2_plus_neg_3_fact == <<"2", " ", "+", " ", "-", "3", "!">>

Src_1_plus_neg_4_fact == <<"1", " ", "+", " ", "-", "4", "!">>

Src_0a == <<"1", " ", "+", " ", "0", "a", " ", "-", " ", "1">>

Src_brackets == <<"1", "0", "0", " ", "*", " ", "(", "2", "0", "0", " ", "+", " ", "1", "0", ")">>

\* the value returned equals the value of the reference tree, whenever the
\* model computes both
SameValueAs(tree) ==
    (pc = "evaluated" /\ value.k = "num" /\ ~ValueOfTree(tree).raised
        /\ ValueOfTree(tree).val.k = "num")
    => value = ValueOfTree(tree).val

\* of two neighbouring operators of a chain, the one of higher priority
\* lies inside an operand of the other
HigherBindsTighter(tree, tl) ==
    \A k \in 1..(Len(tl) - 2) :
        (Shape(tl)[k] = "o" /\ Shape(tl)[k + 2] = "o") =>
            /\ Priority(tl[k]) > Priority(tl[k + 2])
                  => FindPos(FindPos(tree, tl[k + 2].pos), tl[k].pos) # None
            /\ Priority(tl[k + 2]) > Priority(tl[k])
                  => FindPos(FindPos(tree, tl[k].pos), tl[k + 2].pos) # None

(***************************************************************************)
(* C1: for every bracket-free expression of number literals joined by     *)
(* binary operators, with any number of operators, the tree groups by     *)
(* priority: of two neighbouring operators the one of higher priority     *)
(* binds tighter, and evaluate returns the value of the standard          *)
(* precedence reading.                                                     *)
(***************************************************************************)
C1_PrecedenceReading ==
    (Built /\ IsChain(token_list)) =>
        /\ HigherBindsTighter(node, token_list)
        /\ SameValueAs(StdTree(token_list, 1, Len(token_list)))

EqualPriorityChain(tl) ==
    /\ IsChain(tl)
    /\ \A j, k \in 1..Len(tl) :
          (Shape(tl)[j] = "o" /\ Shape(tl)[k] = "o") => Priority(tl[j]) = Priority(tl[k])

(***************************************************************************)
(* C2: for every bracket-free chain of binary operators of equal          *)
(* priority, of any length, the tree is the fully left-nested one and     *)
(* evaluate returns the left-to-right value.                               *)
(***************************************************************************)
C2_LeftAssociative ==
    (Built /\ EqualPriorityChain(token_list)) =>
        /\ node = LeftNested(token_list, (Len(token_list) - 1) \div 2)
        /\ SameValueAs(LeftNested(token_list, (Len(token_list) - 1) \div 2))

\* a op (b op c) op d, a op (b) op c, (a op b) op c
IsBracketForm(tl) ==
    Shape(tl) \in { <<"N", "o", "(", "N", "o", "N", ")", "o", "N">>,
                    <<"N", "o", "(", "N", ")", "o", "N">>,
                    <<"(", "N", "o", "N", ")", "o", "N">> }

(***************************************************************************)
(* C3: a parenthesized sub-expression is a single operand: the operator   *)
(* written after the closing bracket still competes by priority with the  *)
(* operator written before the opening bracket, so a * (b + c) + d reads  *)
(* (a * (b + c)) + d and evaluates accordingly.                            *)
(***************************************************************************)
C3_BracketIsOperand ==
    (Built /\ IsBracketForm(token_list)) =>
        /\ node = StdTree(token_list, 1, Len(token_list))
        /\ SameValueAs(StdTree(token_list, 1, Len(token_list)))

IsPrefixToken(token) ==
    /\ token.type = "TokenSymbol"
    /\ is_unary_op(token.symbol)
    /\ UNARYOP_TABLE[token.symbol].affix = "PREFIX"

IsPostfixToken(token) ==
    /\ token.type = "TokenSymbol"
    /\ is_unary_op(token.symbol)
    /\ UNARYOP_TABLE[token.symbol].affix = "POSTFIX"

\* token k stands where an operand starts and is not the operand of a
\* prefix operator or the bracket of a call
StartsOperand(tl, k) ==
    \/ k = 1
    \/ tl[k - 1].type = "TokenOpenBracket"
    \/ is_comma(tl[k - 1])
    \/ /\ k > 2
       /\ Shape(tl)[k - 1] = "o"
       /\ tl[k - 2].type \in {"TokenNumber", "TokenName", "TokenCloseBracket"}
    \/ /\ k > 2
       /\ Shape(tl)[k - 1] = "o"
       /\ IsPostfixToken(tl[k - 2])

\* the postfix node spliced between prefix token p and number token n
Spliced(p, n, post) ==
    UnaryOpNode(p.symbol, UnaryOpNode(post.symbol, NumberNode(n.num, n.pos), post.pos), p.pos)

(***************************************************************************)
(* C4: a postfix operator that follows an operand already wrapped in a    *)
(* prefix unary node, with priority greater than or equal to the prefix   *)
(* operator's, is attached to the innermost operand and the prefix node   *)
(* stays the outer node: -3! is -(3!), evaluate("2 + -3!") is -4 and      *)
(* evaluate("1 + -4!") is -23.                                             *)
(***************************************************************************)
C4_PostfixBindsInside ==
    /\ Built =>
         \A k \in 1..Len(token_list) :
            /\ ( /\ k + 2 <= Len(token_list)
                 /\ StartsOperand(token_list, k)
                 /\ IsPrefixToken(token_list[k])
                 /\ token_list[k + 1].type = "TokenNumber"
                 /\ IsPostfixToken(token_list[k + 2])
                 /\ UNARYOP_TABLE[token_list[k + 2].symbol].priority
                       >= UNARYOP_TABLE[token_list[k].symbol].priority )
               => FindPos(node, token_list[k].pos)
                     = Spliced(token_list[k], token_list[k + 1], token_list[k + 2])
            /\ ( /\ k + 4 <= Len(token_list)
                 /\ StartsOperand(token_list, k)
                 /\ token_list[k].type = "TokenOpenBracket"
                 /\ IsPrefixToken(token_list[k + 1])
                 /\ token_list[k + 2].type = "TokenNumber"
                 /\ token_list[k + 3].type = "TokenCloseBracket"
                 /\ IsPostfixToken(token_list[k + 4])
                 /\ UNARYOP_TABLE[token_list[k + 4].symbol].priority
                       >= UNARYOP_TABLE[token_list[k + 1].symbol].priority )
               => FindPos(node, token_list[k + 1].pos)
                     = Spliced(token_list[k + 1], token_list[k + 2], token_list[k + 4])
    /\ (pc = "evaluated" /\ exp = Src_2_plus_neg_3_fact) => value = Num("int", 0 - 4, 1)
    /\ (pc = "evaluated" /\ exp = Src_1_plus_neg_4_fact) => value = Num("int", 0 - 23, 1)
    /\ (exp \in {Src_2_plus_neg_3_fact, Src_1_plus_neg_4_fact} /\ pc \notin {"start", "tokenized", "parsed"})
          => pc = "evaluated"

C4_Witness ==
    /\ exp = Src_2_plus_neg_3_fact
    /\ pc = "evaluated"
    /\ node.right = UnaryOpNode("-", UnaryOpNode("!", NumberNode(IntNum(3), 5), 6), 4)
    /\ value = Num("int", 0 - 4, 1)

(***************************************************************************)
(* C5: for every token sequence tokenize can return, including one that   *)
(* ends with a binary operator or an open bracket and the empty one,      *)
(* build_expression_tree returns a tree or raises ParsingException; no    *)
(* other exception type escapes and no partial tree is returned.          *)
(***************************************************************************)
C5_BuildRaisesOnlyParsingException ==
    pc = "build_raised" => (IsParsingException(exc) /\ node = None)

(***************************************************************************)
(* C6: for every non-empty source string tokenize returns a token list or *)
(* raises ParsingException carrying a position; a numeric literal the     *)
(* state machine cannot complete is never rejected with another           *)
(* exception type.                                                         *)
(***************************************************************************)
C6_TokenizeRaisesOnlyParsingException ==
    (pc = "tokenize_raised" /\ exp # <<>>) => (IsParsingException(exc) /\ exc.pos \in Int)

\* offset o is an index of the source and holds the character, or the
\* first character of the token, that the message of e is about
RefersTo(e, o) ==
    /\ o \in 0..(Len(exp) - 1)
    /\ LET msg == e.args[1]
           text == msg[1]
           startsToken == \E k \in 1..Len(token_list) : token_list[k].pos = o
       IN  CASE text = "invalid character" -> At(exp, o) = msg[2]
             [] text = "invalid '.'" -> At(exp, o) = SEP_DOT
             [] text = "invalid 'e'" -> At(exp, o) \in {"e", "E"}
             [] text \in {"unexpected symbol", "is not a prefix operator"} ->
                    At(exp, o) = msg[2] /\ startsToken
             [] text = "unmatch '('" -> At(exp, o) = SEP_LEFT_BRACKET /\ startsToken
             [] text = "unmatch ')'" -> At(exp, o) = SEP_RIGHT_BRACKET /\ startsToken
             [] text \in {"unexpected token", "unclose func call"} -> startsToken
             [] OTHER -> FALSE

RaisedParsingException == pc \in {"tokenize_raised", "build_raised"} /\ IsParsingException(exc)

(***************************************************************************)
(* C7 as stated: the pos attribute of every ParsingException equals the   *)
(* 0-based offset in the source of the offending character or token.      *)
(***************************************************************************)
C7_PosIsOffset == RaisedParsingException => RefersTo(exc, exc.pos)

(***************************************************************************)
(* C7 as amended: the pos attribute of every ParsingException equals the  *)
(* 0-based offset in the source of the offending character or token plus  *)
(* one; the 0-based offset itself is the second element of args.          *)
(***************************************************************************)
C7_PosIsOffsetPlusOne ==
    RaisedParsingException => (RefersTo(exc, exc.pos - 1) /\ exc.args[2] = exc.pos - 1)

C7_Witness ==
    /\ pc = "build_raised"
    /\ exp = <<"1", ")", " ">>
    /\ exc.args = << <<"unmatch ')'">>, 1 >>
    /\ exc.pos = 2

IsLetterNotE(c) == isalpha(c) /\ c \notin {"e", "E"}

\* a numeric literal starts at offset s, has only digits up to offset j,
\* and the character at j is a letter other than e and E; what stands
\* before s tokenizes without error
DigitsThenLetter(s, j) ==
    /\ s < j
    /\ \A i \in s..(j - 1) : isnumeric(At(exp, i))
    /\ IsLetterNotE(At(exp, j))
    /\ s > 0 => (~is_name_char(At(exp, s - 1)) /\ ~tokenize(Slice(exp, 0, s)).raised)

(***************************************************************************)
(* C8: tokenizing a digit sequence immediately followed by a letter other *)
(* than e and E never yields a number token followed by a name token: it  *)
(* fails with a ParsingException whose message names that letter and      *)
(* whose pos attribute is the letter's 0-based index plus one.            *)
(***************************************************************************)
C8_DigitsThenLetterRejected ==
    /\ \A j \in 1..(Len(exp) - 1) : \A s \in 0..(j - 1) :
          (DigitsThenLetter(s, j) /\ pc # "start") =>
              /\ pc = "tokenize_raised"
              /\ IsParsingException(exc)
              /\ exc.args[1] = <<"invalid character", At(exp, j)>>
              /\ exc.pos = j + 1
    /\ Tokenized =>
          \A k \in 1..(Len(token_list) - 1) :
              (token_list[k].type = "TokenNumber" /\ token_list[k + 1].type = "TokenName") =>
                  ~( /\ isalpha(At(exp, token_list[k + 1].pos))
                     /\ isnumeric(At(exp, token_list[k + 1].pos - 1)) )

C8_Witness ==
    /\ exp = Src_0a
    /\ pc = "tokenize_raised"
    /\ exc.args[1] = <<"invalid character", "a">>
    /\ exc.pos = 6

\* the offset just after the run of digits that starts at offset p
DigitRunEnd(p) ==
    IF \E q \in p..(Len(exp) - 1) : ~isnumeric(At(exp, q))
    THEN CHOOSE q \in p..(Len(exp) - 1) :
            ~isnumeric(At(exp, q)) /\ \A i \in p..(q - 1) : isnumeric(At(exp, i))
    ELSE Len(exp)

\* the literal at offset p is made of digits only
DigitsOnlyAt(p) ==
    /\ isnumeric(At(exp, p))
    /\ ~(DigitRunEnd(p) < Len(exp) /\ At(exp, DigitRunEnd(p)) \in {SEP_DOT, "e", "E"})

(***************************************************************************)
(* C9: tokenize produces an integer-valued number token exactly when the  *)
(* literal is digits only; every literal containing a dot or an exponent  *)
(* produces a floating-point value (100., .2, 3e10, 3.1e-5), and          *)
(* build_expression_tree carries the token's value and type unchanged     *)
(* into the NumberNode.                                                    *)
(***************************************************************************)
C9_NumberTyping ==
    /\ Tokenized =>
          \A k \in 1..Len(token_list) :
              token_list[k].type = "TokenNumber" =>
                  LET tok == token_list[k] IN
                  /\ tok.num.t \in {"int", "float"}
                  /\ tok.num.t = "int" <=> DigitsOnlyAt(tok.pos)
                  /\ tok.num.t = "int" =>
                        /\ tok.num.m = DigitsToNat(Slice(exp, tok.pos, DigitRunEnd(tok.pos)))
                        /\ tok.num.e = 0
    /\ Built =>
          \A k \in 1..Len(token_list) :
              token_list[k].type = "TokenNumber" =>
                  FindPos(node, token_list[k].pos)
                      = NumberNode(token_list[k].num, token_list[k].pos)
    /\ (Tokenized /\ exp = <<"1", "0", "0">>) =>
          token_list[1].num = [t |-> "int", m |-> 100, e |-> 0]
    /\ (Tokenized /\ exp = <<"1", "0", "0", ".">>) =>
          token_list[1].num = [t |-> "float", m |-> 1, e |-> 2]
    /\ (Tokenized /\ exp = <<".", "2">>) =>
          token_list[1].num = [t |-> "float", m |-> 2, e |-> 0 - 1]
    /\ (Tokenized /\ exp = <<"3", "e", "1", "0">>) =>
          token_list[1].num = [t |-> "float", m |-> 3, e |-> 10]
    /\ (Tokenized /\ exp = <<"3", ".", "1", "e", "-", "5">>) =>
          token_list[1].num = [t |-> "float", m |-> 31, e |-> 0 - 6]
    /\ exp \in { <<"1", "0", "0">>, <<"1", "0", "0", ".">>, <<".", "2">>, <<"3", "e", "1", "0">>,
                 <<"3", ".", "1", "e", "-", "5">> } => pc # "tokenize_raised"

C9_Witness ==
    /\ exp = <<"1", "0", "0", ".">>
    /\ pc = "parsed"
    /\ token_list[1].num.t = "float"
    /\ node = NumberNode([t |-> "float", m |-> 1, e |-> 2], 0)

\* the first character of a token's text is the character c
FirstCharFits(token, c) ==
    CASE token.type = "TokenNumber" -> isnumeric(c) \/ c = SEP_DOT
      [] token.type = "TokenName" -> is_name_char(c) /\ token.name[1] = c
      [] token.type = "TokenSymbol" ->
             token.symbol = c /\ (is_op(c) \/ c \in VALID_SEPARATORS)
      [] token.type = "TokenOpenBracket" -> c = SEP_LEFT_BRACKET /\ token.symbol = c
      [] token.type = "TokenCloseBracket" -> c = SEP_RIGHT_BRACKET /\ token.symbol = c
      [] OTHER -> FALSE

(***************************************************************************)
(* C10: for every source that tokenizes successfully, tokens are emitted  *)
(* in source order, spaces produce no token, every token's pos is the     *)
(* 0-based index of the token's first character, and ( and ) are emitted  *)
(* as TokenOpenBracket and TokenCloseBracket.                              *)
(***************************************************************************)
C10_TokenOrderAndPositions ==
    Tokenized =>
        /\ \A k \in 1..(Len(token_list) - 1) : token_list[k].pos < token_list[k + 1].pos
        /\ \A k \in 1..Len(token_list) :
              /\ token_list[k].pos \in 0..(Len(exp) - 1)
              /\ At(exp, token_list[k].pos) # " "
              /\ FirstCharFits(token_list[k], At(exp, token_list[k].pos))
        /\ \A i \in 0..(Len(exp) - 1) :
              /\ At(exp, i) = SEP_LEFT_BRACKET <=>
                    \E k \in 1..Len(token_list) :
                        token_list[k].type = "TokenOpenBracket" /\ token_list[k].pos = i
              /\ At(exp, i) = SEP_RIGHT_BRACKET <=>
                    \E k \in 1..Len(token_list) :
                        token_list[k].type = "TokenCloseBracket" /\ token_list[k].pos = i
        /\ token_list = <<>> <=> \A i \in 0..(Len(exp) - 1) : At(exp, i) = " "
        /\ token_list # <<>> =>
              \A i \in 0..(token_list[1].pos - 1) : At(exp, i) = " "

C10_Witness ==
    /\ exp = Src_brackets
    /\ pc = "tokenized"
    /\ Len(token_list) = 7
    /\ token_list[3] = TokenOpenBracket(6)
    /\ token_list[7] = TokenCloseBracket(15)

NotSpace(c) == c # " "

\* the concatenation of the source spans of the tokens: the source with
\* every space removed
WithoutSpaces(src) == SelectSeq(src, NotSpace)

\* two tokens of the same kind and value, whatever their positions
SameKindAndValue(t1, t2) == [t1 EXCEPT !.pos = 0] = [t2 EXCEPT !.pos = 0]

(***************************************************************************)
(* C11: for every source that parses as a valid expression, tokenizing    *)
(* the source with all spaces removed yields the same sequence of token   *)
(* kinds and token values as tokenizing the original; only positions      *)
(* differ.                                                                 *)
(***************************************************************************)
C11_RetokenizeWithoutSpaces ==
    Built =>
        LET again == tokenize(WithoutSpaces(exp)) IN
        /\ ~again.raised
        /\ Len(again.val) = Len(token_list)
        /\ \A k \in 1..Len(token_list) : SameKindAndValue(again.val[k], token_list[k])

C11_Witness ==
    /\ exp = Src_1_plus_2_times_3
    /\ pc = "parsed"
    /\ Len(token_list) = 5
    /\ token_list[5].pos = 8
    /\ tokenize(WithoutSpaces(exp)).val[5] = TokenNumber(IntNum(3), 4)

\* a token sequence that build_expression_tree turns into a tree
ValidExpression(tl) == tl # <<>> /\ ~build_expression_tree(tl).raised

\* token k stands where an operand starts, and what precedes it is made of
\* open brackets and of numbers each followed by a binary operator, so
\* that no error can be raised before token k is read
OperandAfterCleanPrefix(tl, k) ==
    /\ k \in 1..Len(tl)
    /\ k = 1 \/ ShapeOf(tl[k - 1]) \in {"(", "o"}
    /\ \A m \in 1..(k - 1) :
          \/ /\ ShapeOf(tl[m]) = "("
             /\ m = 1 \/ ShapeOf(tl[m - 1]) \in {"(", "o"}
          \/ /\ ShapeOf(tl[m]) = "N"
             /\ m = 1 \/ ShapeOf(tl[m - 1]) \in {"(", "o"}
             /\ m + 1 <= k - 1
             /\ ShapeOf(tl[m + 1]) = "o"
          \/ /\ ShapeOf(tl[m]) = "o"
             /\ m > 1
             /\ ShapeOf(tl[m - 1]) = "N"

\* the tokens from k to the end of the input
From(tl, k) == SubSeq(tl, k, Len(tl))

\* the tokens from k on lack exactly one close bracket at the end of the
\* input to be a valid expression
LacksCloseBracket(tl, k) == ValidExpression(From(tl, k) \o <<TokenCloseBracket(Len(exp))>>)

\* the bracket opened at token k holds a complete expression that is
\* followed by the end of the input or by a comma
BracketNotClosed(tl, k) ==
    /\ is_open_bracket(tl[k])
    /\ \/ LacksCloseBracket(tl, k)
       \/ \E j \in (k + 2)..Len(tl) : is_comma(tl[j]) /\ ValidExpression(SubSeq(tl, k + 1, j - 1))

\* the argument list of the call at token k runs to the end of the input:
\* closing it there, after dropping the comma that may follow its last
\* argument, gives a valid call
CallNotClosed(tl, k) ==
    /\ tl[k].type = "TokenName"
    /\ k < Len(tl)
    /\ is_open_bracket(tl[k + 1])
    /\ \/ LacksCloseBracket(tl, k)
       \/ /\ is_comma(tl[Len(tl)])
          /\ ~is_comma(tl[Len(tl) - 1])
          /\ ~is_open_bracket(tl[Len(tl) - 1])
          /\ ValidExpression(SubSeq(tl, k, Len(tl) - 1) \o <<TokenCloseBracket(Len(exp))>>)

\* the brackets of a token sequence are balanced
Balanced(tl) ==
    /\ \A k \in 1..Len(tl) : DepthAt(tl, 1, k + 1) >= 0
    /\ DepthAt(tl, 1, Len(tl) + 1) = 0

BuildRaised(e) == pc = "build_raised" /\ exc = e

Src_open_unclosed == <<"(", "1", "+", "2", " ", "*", " ", "3">>

Src_close_unopened ==
    <<"1", " ", "+", " ", "(", "1", " ", "*", " ", "2", " ", "+", " ", "3", ")", ")", " ", "-", " ", "3">>

Src_pow_unclosed == <<"1", " ", "+", " ", "p", "o", "w", "(", "1", "0", "0", ",", " ", "2">>

(***************************************************************************)
(* C12: no expression with unbalanced brackets is accepted, and the error *)
(* refers to the opener: a bracketed sub-expression not followed by a     *)
(* close bracket fails with "unmatch '('" at that opening bracket, an     *)
(* unterminated argument list fails with "unclose func call" at the       *)
(* function-name token, and a close bracket left after a complete         *)
(* top-level expression fails with "unmatch ')'" at that close bracket.   *)
(***************************************************************************)
C12_BracketBalance ==
    /\ Built => Balanced(token_list)
    /\ (Tokenized /\ pc # "tokenized") =>
          \A k \in 1..Len(token_list) :
             /\ (OperandAfterCleanPrefix(token_list, k) /\ BracketNotClosed(token_list, k))
                   => BuildRaised(ParsingException(<<"unmatch '('">>, token_list[k].pos))
             /\ (OperandAfterCleanPrefix(token_list, k) /\ CallNotClosed(token_list, k))
                   => BuildRaised(ParsingException(<<"unclose func call">>, token_list[k].pos))
             /\ (is_close_bracket(token_list[k]) /\ ValidExpression(SubSeq(token_list, 1, k - 1)))
                   => BuildRaised(ParsingException(<<"unmatch ')'">>, token_list[k].pos))
    /\ (exp = Src_open_unclosed /\ pc \notin {"start", "tokenized"})
          => BuildRaised(ParsingException(<<"unmatch '('">>, 0))
    /\ (exp = Src_close_unopened /\ pc \notin {"start", "tokenized"})
          => BuildRaised(ParsingException(<<"unmatch ')'">>, 15))
    /\ (exp = Src_pow_unclosed /\ pc \notin {"start", "tokenized"})
          => BuildRaised(ParsingException(<<"unclose func call">>, 4))

C12_Witness ==
    /\ exp = <<"2", "*", "(", "(", "1">>
    /\ BuildRaised(ParsingException(<<"unmatch '('">>, 3))
    /\ BracketNotClosed(token_list, 4)
    /\ ~BracketNotClosed(token_list, 3)

\* the close bracket that matches the open bracket at token k
MatchingClose(tl, k) ==
    CHOOSE j \in (k + 1)..Len(tl) : is_close_bracket(tl[j]) /\ DepthAt(tl, k + 1, j) = 0

\* the commas directly inside the brackets opened at token k
TopCommas(tl, k) ==
    {j \in (k + 1)..(MatchingClose(tl, k) - 1) : is_comma(tl[j]) /\ DepthAt(tl, k + 1, j) = 0}

\* the m-th of these commas; the open bracket itself for m = 0 and the
\* close bracket after the last one
Separator(tl, k, m) ==
    IF m = 0 THEN k
    ELSE IF m > Cardinality(TopCommas(tl, k)) THEN MatchingClose(tl, k)
    ELSE CHOOSE j \in TopCommas(tl, k) : Cardinality({i \in TopCommas(tl, k) : i < j}) = m - 1

\* the number of arguments written between the brackets opened at token
\* k: a comma directly before the close bracket ends the last argument
ArgCount(tl, k) ==
    IF MatchingClose(tl, k) = k + 1 THEN 0
    ELSE IF is_comma(tl[MatchingClose(tl, k) - 1]) THEN Cardinality(TopCommas(tl, k))
    ELSE Cardinality(TopCommas(tl, k)) + 1

\* the tokens of the m-th argument
ArgTokens(tl, k, m) == SubSeq(tl, Separator(tl, k, m - 1) + 1, Separator(tl, k, m) - 1)

(***************************************************************************)
(* C13: a name token immediately followed by an open-bracket token is     *)
(* always parsed as a FuncCallNode carrying that name, whose args hold    *)
(* the comma-separated argument expressions in source order, each a full  *)
(* expression; f() yields an empty args list; a name token not followed   *)
(* by an open bracket is always parsed as a NameConstantNode.             *)
(***************************************************************************)
C13_NameThenBracketIsCall ==
    Built =>
        \A k \in 1..Len(token_list) :
            token_list[k].type = "TokenName" =>
                LET n == FindPos(node, token_list[k].pos) IN
                IF k < Len(token_list) /\ is_open_bracket(token_list[k + 1])
                THEN /\ n.type = "FuncCallNode"
                     /\ n.id = token_list[k].name
                     /\ Len(n.args) = ArgCount(token_list, k + 1)
                     /\ \A m \in 1..Len(n.args) :
                           /\ ValidExpression(ArgTokens(token_list, k + 1, m))
                           /\ n.args[m] = build_expression_tree(ArgTokens(token_list, k + 1, m)).val
                ELSE n = NameConstantNode(token_list[k].name, token_list[k].pos)

C13_Witness ==
    /\ exp = <<"f", "(", "1", ",", "2", ",", "g", "(", "3", ")", ")">>
    /\ pc = "parsed"
    /\ node = FuncCallNode(<<"f">>,
                           <<NumberNode(IntNum(1), 2), NumberNode(IntNum(2), 4),
                             FuncCallNode(<<"g">>, <<NumberNode(IntNum(3), 8)>>, 6)>>, 0)

(***************************************************************************)
(* C14: two or more adjacent prefix unary operators are accepted: --3,    *)
(* -+3 and 1 - - -3 parse into nested UnaryOpNodes, the outer operator    *)
(* wrapping the inner unary node, rather than being rejected or           *)
(* collapsed.                                                              *)
(***************************************************************************)
C14_AdjacentPrefixNested ==
    (Tokenized /\ pc # "tokenized") =>
        \A k \in 1..(Len(token_list) - 2) :
            ( /\ OperandAfterCleanPrefix(token_list, k)
              /\ IsPrefixToken(token_list[k])
              /\ IsPrefixToken(token_list[k + 1])
              /\ token_list[k + 2].type = "TokenNumber"
              /\ k + 2 = Len(token_list) )
            => /\ Built
               /\ FindPos(node, token_list[k].pos)
                     = UnaryOpNode(token_list[k].symbol,
                                   UnaryOpNode(token_list[k + 1].symbol,
                                               NumberNode(token_list[k + 2].num, token_list[k + 2].pos),
                                               token_list[k + 1].pos),
                                   token_list[k].pos)

IsBinaryOpToken(token) == token.type = "TokenSymbol" /\ token.symbol \in DOMAIN BINOP_TABLE

\* the last open bracket before token m, 0 if there is none
LastOpener(tl, m) ==
    IF \E i \in 1..(m - 1) : is_open_bracket(tl[i])
    THEN CHOOSE i \in 1..(m - 1) :
            is_open_bracket(tl[i]) /\ \A j \in (i + 1)..(m - 1) : ~is_open_bracket(tl[j])
    ELSE 0

\* token m stands where an operand may start
AtOperandPosition(tl, m) ==
    \/ m = 1
    \/ is_open_bracket(tl[m - 1])
    \/ is_comma(tl[m - 1])
    \/ IsBinaryOpToken(tl[m - 1])

\* a sub-expression starts at token s, and what precedes it is made of
\* open brackets, names that open a call, numbers each followed by a
\* binary operator or by a comma of a call, so that no error can be raised
\* before token s is read
StartsAfterCleanPrefix(tl, s) ==
    /\ s \in 1..Len(tl)
    /\ AtOperandPosition(tl, s)
    /\ \A m \in 1..(s - 1) :
          \/ /\ is_open_bracket(tl[m])
             /\ AtOperandPosition(tl, m) \/ tl[m - 1].type = "TokenName"
          \/ /\ tl[m].type = "TokenName"
             /\ AtOperandPosition(tl, m)
             /\ m + 1 <= s - 1
             /\ is_open_bracket(tl[m + 1])
          \/ /\ tl[m].type = "TokenNumber"
             /\ AtOperandPosition(tl, m)
             /\ m + 1 <= s - 1
             /\ IsBinaryOpToken(tl[m + 1]) \/ is_comma(tl[m + 1])
          \/ /\ IsBinaryOpToken(tl[m])
             /\ m > 1
             /\ tl[m - 1].type = "TokenNumber"
          \/ /\ is_comma(tl[m])
             /\ m > 1
             /\ tl[m - 1].type = "TokenNumber"
             /\ LastOpener(tl, m) > 1
             /\ tl[LastOpener(tl, m) - 1].type = "TokenName"

\* token j cannot follow a complete expression that ends at token j - 1
CannotFollow(tl, j) ==
    \/ tl[j].type \in {"TokenNumber", "TokenName"}
    \/ is_open_bracket(tl[j]) /\ tl[j - 1].type # "TokenName"
    \/ IsPostfixToken(tl[j]) /\ IsPostfixToken(tl[j - 1])

\* the message of the error raised at such a token
UnexpectedMessage(token) ==
    IF IsTokenSymbol(token) THEN <<"unexpected symbol", token.symbol>> ELSE <<"unexpected token">>

\* token j - 1 ends an operand
EndsOperand(tl, j) ==
    \/ tl[j - 1].type \in {"TokenNumber", "TokenName"}
    \/ is_close_bracket(tl[j - 1])
    \/ IsPostfixToken(tl[j - 1])

Src_number_then_bracket == <<"1", " ", "+", " ", "0", "(", "1", "0", "0", ")">>

Src_leftover_comma == <<"1", "+", " ", "1", ",", " ", "2", " ", "*", " ", "2">>

(***************************************************************************)
(* C15: after one complete expression, at top level, inside brackets or   *)
(* inside an argument list, the only tokens accepted next are end of      *)
(* input, a close bracket, a comma or a binary operator; any other next   *)
(* token (an open bracket after a number, a number or name directly after *)
(* an operand, a second postfix operator) raises ParsingException at that *)
(* token, and a comma left over after a complete top-level expression     *)
(* raises "unexpected token".                                              *)
(***************************************************************************)
C15_OnlyAcceptedFollowers ==
    /\ Built =>
          \A j \in 2..Len(token_list) :
              EndsOperand(token_list, j) =>
                  \/ is_close_bracket(token_list[j])
                  \/ is_comma(token_list[j])
                  \/ IsBinaryOpToken(token_list[j])
                  \/ IsPostfixToken(token_list[j]) /\ ~IsPostfixToken(token_list[j - 1])
                  \/ is_open_bracket(token_list[j]) /\ token_list[j - 1].type = "TokenName"
    /\ (Tokenized /\ pc # "tokenized") =>
          \A s \in 1..Len(token_list) : \A j \in (s + 1)..Len(token_list) :
              /\ ( /\ StartsAfterCleanPrefix(token_list, s)
                   /\ ValidExpression(SubSeq(token_list, s, j - 1))
                   /\ CannotFollow(token_list, j) )
                 => BuildRaised(ParsingException(UnexpectedMessage(token_list[j]), token_list[j].pos))
              /\ ( /\ s = 1
                   /\ ValidExpression(SubSeq(token_list, s, j - 1))
                   /\ is_comma(token_list[j]) )
                 => BuildRaised(ParsingException(<<"unexpected token">>, token_list[j].pos))
    /\ (exp = Src_number_then_bracket /\ pc \notin {"start", "tokenized"})
          => BuildRaised(ParsingException(<<"unexpected symbol", "(">>, 5))
    /\ (exp = Src_leftover_comma /\ pc \notin {"start", "tokenized"})
          => BuildRaised(ParsingException(<<"unexpected token">>, 4))

C15_Witness ==
    /\ exp = <<"f", "(", "1", ",", "3", "!", " ", "4">>
    /\ StartsAfterCleanPrefix(token_list, 5)
    /\ ValidExpression(SubSeq(token_list, 5, 6))
    /\ CannotFollow(token_list, 7)
    /\ BuildRaised(ParsingException(<<"unexpected token">>, 7))

\* token k is a postfix operator that stands where an operand is expected:
\* at the start of a sub-expression or directly after a prefix operator
\* that starts one
PostfixWhereOperandExpected(tl, k) ==
    /\ IsPostfixToken(tl[k])
    /\ \/ StartsAfterCleanPrefix(tl, k)
       \/ /\ k > 1
          /\ IsPrefixToken(tl[k - 1])
          /\ StartsAfterCleanPrefix(tl, k - 1)

(***************************************************************************)
(* C16: a postfix operator that appears where an operand is expected, at  *)
(* the start of the expression, after a binary operator, after an open    *)
(* bracket or comma, or after a prefix operator, is rejected with a       *)
(* ParsingException stating that it is not a prefix operator, at that     *)
(* operator's position.                                                    *)
(***************************************************************************)
C16_PostfixAsPrefixRejected ==
    (Tokenized /\ pc # "tokenized") =>
        \A k \in 1..Len(token_list) :
            PostfixWhereOperandExpected(token_list, k) =>
                BuildRaised(ParsingException(<<"is not a prefix operator", token_list[k].symbol>>,
                                             token_list[k].pos))

(***************************************************************************)
(* Names absent from the context.                                          *)
(***************************************************************************)
\* the nodes of tree n, n included
RECURSIVE SubTrees(_)
SubTrees(n) ==
    {n} \cup
    CASE n.type = "BinaryOpNode" -> SubTrees(n.left) \cup SubTrees(n.right)
      [] n.type = "UnaryOpNode" -> SubTrees(n.child)
      [] n.type = "FuncCallNode" -> UNION {SubTrees(n.args[i]) : i \in 1..Len(n.args)}
      [] OTHER -> {}

\* the token list with every name replaced by nm
WithNames(tl, nm) ==
    [k \in 1..Len(tl) |->
        IF tl[k].type = "TokenName" THEN TokenName(nm, tl[k].pos) ELSE tl[k]]

Evaluation == pc \in {"evaluated", "evaluate_raised"}

AbsentConstant(s) == s.type = "NameConstantNode" /\ s.name \notin DOMAIN _context.constants

AbsentFunction(s) == s.type = "FuncCallNode" /\ s.id \notin DOMAIN _context.functions

UnknownConstant(name) == EvaluationException(<<"unknown constant", name>>, None)

UnsupportedFunction(id) == EvaluationException(<<"unsupported function", id>>, None)

EvaluateRaised(e) == pc = "evaluate_raised" /\ exc = e

Src_unknown_constant == <<"1", " ", "+", " ", "a", " ", "-", " ", "2">>

Src_unsupported_function ==
    <<"1", " ", "+", " ", "f", "o", "o", "(", "1", "0", ")", " ", "*", " ", "2">>

\* C17: the parser accepts a token list whatever its names are (it parses
\* exactly when the same list with every name replaced by the constant e
\* parses); at evaluation every bare name absent from the context raises
\* EvaluationException "unknown constant" with that name and every call of
\* an absent function raises "unsupported function" with that identifier,
\* so that no expression mentioning an absent name evaluates, the error of
\* an expression that is such a name or call is that exception, and
\* '1 + a - 2' and '1 + foo(10) * 2' fail naming a and foo.
C17_AbsentNamesFailAtEvaluate ==
    /\ Tokenized =>
          (ValidExpression(WithNames(token_list, <<"e">>)) <=> ValidExpression(token_list))
    /\ Evaluation =>
          /\ \A s \in SubTrees(node), acceptsFloat \in BOOLEAN :
                /\ AbsentConstant(s) =>
                      evaluate(s, _context, acceptsFloat) = Raise(UnknownConstant(s.name))
                /\ AbsentFunction(s) =>
                      evaluate(s, _context, acceptsFloat) = Raise(UnsupportedFunction(s.id))
          /\ pc = "evaluated" =>
                \A s \in SubTrees(node) : ~AbsentConstant(s) /\ ~AbsentFunction(s)
          /\ AbsentConstant(node) => EvaluateRaised(UnknownConstant(node.name))
          /\ AbsentFunction(node) => EvaluateRaised(UnsupportedFunction(node.id))
          /\ (pc = "evaluate_raised" /\ exc.type = "EvaluationException"
                /\ exc.args[1][1] = "unknown constant") =>
                \E s \in SubTrees(node) : AbsentConstant(s) /\ s.name = exc.args[1][2]
          /\ (pc = "evaluate_raised" /\ exc.type = "EvaluationException"
                /\ exc.args[1][1] = "unsupported function") =>
                \E s \in SubTrees(node) : AbsentFunction(s) /\ s.id = exc.args[1][2]
    /\ (Evaluation /\ exp = Src_unknown_constant) => EvaluateRaised(UnknownConstant(<<"a">>))
    /\ (Evaluation /\ exp = Src_unsupported_function) =>
          EvaluateRaised(UnsupportedFunction(<<"f", "o", "o">>))

C17_Witness ==
    /\ exp = Src_unsupported_function
    /\ _context = TestContext
    /\ EvaluateRaised(UnsupportedFunction(<<"f", "o", "o">>))
    /\ \E s \in SubTrees(node) : AbsentFunction(s)

(***************************************************************************)
(* The number of arguments of a call.                                      *)
(***************************************************************************)
IncorrectArgc(id) ==
    EvaluationException(<<"incorrect number of arguments passed into function", id>>, None)

\* the number of required and of optional parameters of a registered function
Required(fun) == fun.argc - fun.defaults

Optional(fun) == fun.defaults

\* the values of the arguments of call s, when each evaluates
ArgValues(s, acceptsFloat) ==
    [i \in 1..Len(s.args) |-> evaluate(s.args[i], _context, acceptsFloat).val]

Src_mult_0 == <<"m", "u", "l", "t", "(", ")">>

Src_mult_1 == <<"m", "u", "l", "t", "(", "1", "0", ")">>

Src_mult_2 == <<"m", "u", "l", "t", "(", "1", "0", ",", " ", "3", ")">>

Src_mult_3 == <<"m", "u", "l", "t", "(", "1", ",", " ", "2", ",", " ", "3", ")">>

Src_abs_2 == <<"a", "b", "s", "(", "1", ",", " ", "-", "2", ")">>

\* C18: a call of a function registered with r required and o optional
\* parameters, given k arguments: if k < r or k > r + o it raises
\* EvaluationException "incorrect number of arguments passed into function"
\* with the function's name, whatever its arguments are (nothing is
\* evaluated or invoked); if r <= k <= r + o and the arguments evaluate, its
\* outcome is that of the function applied to their values.  With the
\* signature (a, m=2): mult(10) = 20, mult(10, 3) = 30, mult() and
\* mult(1, 2, 3) are rejected.
C18_ArityEnforced ==
    /\ Evaluation =>
          \A s \in SubTrees(node), acceptsFloat \in BOOLEAN :
             (s.type = "FuncCallNode" /\ s.id \in DOMAIN _context.functions) =>
                LET fun == _context.functions[s.id]
                    r == Required(fun)
                    o == Optional(fun)
                    k == Len(s.args)
                    out == evaluate(s, _context, acceptsFloat)
                IN  IF r <= k /\ k <= r + o
                    THEN /\ out # Raise(IncorrectArgc(s.id))
                         /\ (\A i \in 1..k :
                                ~evaluate(s.args[i], _context, acceptsFloat).raised) =>
                               out = wrap_errors(Call(fun, ArgValues(s, acceptsFloat)))
                    ELSE out = Raise(IncorrectArgc(s.id))
    /\ (Evaluation /\ _context = TestContext) =>
          /\ exp = Src_mult_0 => EvaluateRaised(IncorrectArgc(<<"m", "u", "l", "t">>))
          /\ exp = Src_mult_1 => pc = "evaluated" /\ value = Num("int", 20, 1)
          /\ exp = Src_mult_2 => pc = "evaluated" /\ value = Num("int", 30, 1)
          /\ exp = Src_mult_3 => EvaluateRaised(IncorrectArgc(<<"m", "u", "l", "t">>))
          /\ exp = Src_abs_2 => EvaluateRaised(IncorrectArgc(<<"a", "b", "s">>))

C18_Witness ==
    /\ exp = Src_mult_3
    /\ _context = TestContext
    /\ node.type = "FuncCallNode"
    /\ Len(node.args) = 3
    /\ EvaluateRaised(IncorrectArgc(<<"m", "u", "l", "t">>))

(***************************************************************************)
(* Arithmetic failures.                                                    *)
(***************************************************************************)
\* the children of node s in the order in which they are evaluated
Children(s) ==
    CASE s.type = "BinaryOpNode" -> <<s.left, s.right>>
      [] s.type = "UnaryOpNode" -> <<s.child>>
      [] s.type = "FuncCallNode" -> s.args
      [] OTHER -> <<>>

\* node s applies an operator or a registered function to its children
Applies(s) ==
    \/ s.type \in {"BinaryOpNode", "UnaryOpNode"}
    \/ /\ s.type = "FuncCallNode"
       /\ s.id \in DOMAIN _context.functions
       /\ Required(_context.functions[s.id]) <= Len(s.args)
       /\ Len(s.args) <= _context.functions[s.id].argc

ChildOutcome(s, i, acceptsFloat) == evaluate(Children(s)[i], _context, acceptsFloat)

\* the outcome of the operator or function of s on the values of its children
Applied(s, acceptsFloat) ==
    CASE s.type = "BinaryOpNode" ->
            OP_FUNCTIONS_BINARY(s.op, ChildOutcome(s, 1, acceptsFloat).val,
                                ChildOutcome(s, 2, acceptsFloat).val)
      [] s.type = "UnaryOpNode" ->
            OP_FUNCTIONS_UNARY(s.op, ChildOutcome(s, 1, acceptsFloat).val, acceptsFloat)
      [] s.type = "FuncCallNode" ->
            Call(_context.functions[s.id], ArgValues(s, acceptsFloat))

ZeroDivision == EvaluationException(<<"zero division">>, ZeroDivisionError)

ValueErrorWrapped == EvaluationException(<<"value error">>, ValueError)

\* the failure starts at s: its children evaluate and its operation raises e
FailsWith(s, e, acceptsFloat) ==
    /\ Applies(s)
    /\ \A i \in 1..Len(Children(s)) : ~ChildOutcome(s, i, acceptsFloat).raised
    /\ Applied(s, acceptsFloat) = Raise(e)

Src_1_div_0 == <<"1", " ", "/", " ", "0">>

Src_1_mod_0 == <<"1", "%", "0">>

Src_neg_fact == <<"(", "0", "-", "3", ")", "!">>

Src_nested_div_0 == <<"a", "b", "s", "(", "-", "(", "1", "/", "0", ")", ")">>

\* C19: at every node of the tree, an operator or function that raises
\* ZeroDivisionError on the values of its children makes the node raise
\* EvaluationException "zero division" whose inner error is that
\* ZeroDivisionError, and one that raises ValueError makes it raise
\* "value error" whose inner error is that ValueError; a node whose child
\* raises (the children before it having evaluated) raises the very
\* exception of that child, so that the exception evaluate ends with is the
\* one raised where the failure started.  '1 / 0' and '1 % 0' end with
\* "zero division", the factorial of 0 - 3 with "value error".
C19_ArithmeticFailuresKeepTheirTag ==
    /\ Evaluation =>
          \A s \in SubTrees(node), acceptsFloat \in BOOLEAN :
             /\ FailsWith(s, ZeroDivisionError, acceptsFloat) =>
                   evaluate(s, _context, acceptsFloat) = Raise(ZeroDivision)
             /\ FailsWith(s, ValueError, acceptsFloat) =>
                   evaluate(s, _context, acceptsFloat) = Raise(ValueErrorWrapped)
             /\ Applies(s) =>
                   \A i \in 1..Len(Children(s)) :
                      (/\ ChildOutcome(s, i, acceptsFloat).raised
                       /\ \A j \in 1..(i - 1) : ~ChildOutcome(s, j, acceptsFloat).raised) =>
                         evaluate(s, _context, acceptsFloat) = ChildOutcome(s, i, acceptsFloat)
    /\ (pc = "evaluate_raised" /\ exc.type = "EvaluationException" /\ exc.inner # None) =>
          /\ exc \in {ZeroDivision, ValueErrorWrapped}
          /\ \E s \in SubTrees(node), acceptsFloat \in BOOLEAN :
                FailsWith(s, exc.inner, acceptsFloat)
    /\ (Evaluation /\ exp \in {Src_1_div_0, Src_1_mod_0}) => EvaluateRaised(ZeroDivision)
    /\ (Evaluation /\ exp = Src_neg_fact) => EvaluateRaised(ValueErrorWrapped)
    /\ (Evaluation /\ exp = Src_nested_div_0 /\ _context = TestContext) =>
          EvaluateRaised(ZeroDivision)

C19_Witness ==
    /\ exp = Src_nested_div_0
    /\ _context = TestContext
    /\ node.type = "FuncCallNode"
    /\ FailsWith(node.args[1].child, ZeroDivisionError, FALSE)
    /\ EvaluateRaised(ZeroDivision)

(***************************************************************************)
(* Complex results.                                                        *)
(***************************************************************************)
InvalidExpression == EvaluationException(<<"invalid expression">>, None)

\* the operator of binary node s yields a complex number on the values of
\* its operands
YieldsComplex(s, acceptsFloat) ==
    /\ s.type = "BinaryOpNode"
    /\ \A i \in 1..2 : ~ChildOutcome(s, i, acceptsFloat).raised
    /\ Applied(s, acceptsFloat) = Return(Complex)

Src_neg_1_pow_half == <<"(", "-", "1", ")", " ", "^", " ", "0", ".", "5">>

Src_abs_of_complex == <<"a", "b", "s", "(", "(", "-", "1", ")", "^", ".", "5", ")">>

\* C20: the value evaluate returns is never complex; at every node of the
\* tree a binary operator whose result on the values of its operands is
\* complex makes the node raise EvaluationException "invalid expression"
\* with no inner error, and no node evaluates to a complex value.
\* '(-1) ^ 0.5' ends with that exception, also inside a call.
C20_NoComplexResult ==
    /\ pc = "evaluated" => value # Complex /\ value.k # "complex"
    /\ Evaluation =>
          \A s \in SubTrees(node), acceptsFloat \in BOOLEAN :
             /\ YieldsComplex(s, acceptsFloat) =>
                   evaluate(s, _context, acceptsFloat) = Raise(InvalidExpression)
             /\ evaluate(s, _context, acceptsFloat) # Return(Complex)
    /\ (Evaluation /\ exp = Src_neg_1_pow_half) => EvaluateRaised(InvalidExpression)
    /\ (Evaluation /\ exp = Src_abs_of_complex /\ _context = TestContext) =>
          EvaluateRaised(InvalidExpression)

C20_Witness ==
    /\ exp = Src_neg_1_pow_half
    /\ YieldsComplex(node, FALSE)
    /\ EvaluateRaised(InvalidExpression)

(***************************************************************************)
(* The exceptions that leave Evaluator.evaluate.                           *)
(***************************************************************************)
Failed == pc \in {"tokenize_raised", "build_raised", "evaluate_raised"}

\* C21: whenever evaluate of a source string fails, while the string is
\* tokenized, while its tree is built or while the tree is evaluated, the
\* exception that reaches the caller is an EvaluationException.
C21_OnlyEvaluationExceptions ==
    Failed => exc.type = "EvaluationException"

(***************************************************************************)
(* The order in which failures are met.                                    *)
(***************************************************************************)
Outcome(s, acceptsFloat) == evaluate(s, _context, acceptsFloat)

\* the first child of s whose evaluation raises, 0 if there is none
FirstRaising(s, acceptsFloat) ==
    IF \E i \in 1..Len(Children(s)) : ChildOutcome(s, i, acceptsFloat).raised
    THEN CHOOSE i \in 1..Len(Children(s)) :
            /\ ChildOutcome(s, i, acceptsFloat).raised
            /\ \A j \in 1..(i - 1) : ~ChildOutcome(s, j, acceptsFloat).raised
    ELSE 0

\* two children of s raise different exceptions
RaiseDifferently(s, acceptsFloat) ==
    \E i, j \in 1..Len(Children(s)) :
        /\ i < j
        /\ ChildOutcome(s, i, acceptsFloat).raised
        /\ ChildOutcome(s, j, acceptsFloat).raised
        /\ ChildOutcome(s, i, acceptsFloat) # ChildOutcome(s, j, acceptsFloat)

Src_foo_of_div_0 == <<"f", "o", "o", "(", "1", " ", "/", " ", "0", ")">>

Src_abs_of_div_0_and_2 == <<"a", "b", "s", "(", "1", " ", "/", " ", "0", ",", " ", "2", ")">>

Src_a_plus_div_0 == <<"a", " ", "+", " ", "1", " ", "/", " ", "0">>

Src_div_0_plus_a == <<"1", " ", "/", " ", "0", " ", "+", " ", "a">>

Src_mult_a_div_0 == <<"m", "u", "l", "t", "(", "a", ",", " ", "1", " ", "/", " ", "0", ")">>

Src_mult_div_0_a == <<"m", "u", "l", "t", "(", "1", " ", "/", " ", "0", ",", " ", "a", ")">>

\* C23: at every node of the tree the failure reported is the first one
\* met: a binary node whose left operand raises ends with the exception of
\* the left operand whatever the right operand does, and with that of the
\* right operand only if the left one evaluates; a call of an unregistered
\* function ends with "unsupported function" and a call with a wrong number
\* of arguments with "incorrect number of arguments" whatever its arguments
\* do; otherwise a call ends with the exception of its first argument that
\* raises.  'foo(1 / 0)' reports unsupported function, 'abs(1 / 0, 2)'
\* incorrect number of arguments, 'a + 1 / 0' unknown constant.
C23_FirstFailureInOrder ==
    /\ Evaluation =>
          \A s \in SubTrees(node), acceptsFloat \in BOOLEAN :
             /\ (s.type = "BinaryOpNode" /\ FirstRaising(s, acceptsFloat) # 0) =>
                   Outcome(s, acceptsFloat)
                      = ChildOutcome(s, FirstRaising(s, acceptsFloat), acceptsFloat)
             /\ AbsentFunction(s) => Outcome(s, acceptsFloat) = Raise(UnsupportedFunction(s.id))
             /\ (s.type = "FuncCallNode" /\ ~AbsentFunction(s) /\ ~Applies(s)) =>
                   Outcome(s, acceptsFloat) = Raise(IncorrectArgc(s.id))
             /\ (s.type = "FuncCallNode" /\ Applies(s) /\ FirstRaising(s, acceptsFloat) # 0) =>
                   Outcome(s, acceptsFloat)
                      = ChildOutcome(s, FirstRaising(s, acceptsFloat), acceptsFloat)
    /\ (Evaluation /\ _context = TestContext) =>
          /\ exp = Src_foo_of_div_0 => EvaluateRaised(UnsupportedFunction(<<"f", "o", "o">>))
          /\ exp = Src_abs_of_div_0_and_2 => EvaluateRaised(IncorrectArgc(<<"a", "b", "s">>))
          /\ exp = Src_a_plus_div_0 => EvaluateRaised(UnknownConstant(<<"a">>))
          /\ exp = Src_div_0_plus_a => EvaluateRaised(ZeroDivision)
          /\ exp = Src_mult_a_div_0 => EvaluateRaised(UnknownConstant(<<"a">>))
          /\ exp = Src_mult_div_0_a => EvaluateRaised(ZeroDivision)

C23_Witness ==
    /\ exp = Src_mult_a_div_0
    /\ _context = TestContext
    /\ RaiseDifferently(node, FALSE)
    /\ EvaluateRaised(UnknownConstant(<<"a">>))

(***************************************************************************)
(* The shape of the tree as a graph of objects.                            *)
(***************************************************************************)
\* the references held by the child slots of object o, in slot order
ChildRefs(o) ==
    CASE o.type = "BinaryOpNode" -> <<o.left, o.right>>
      [] o.type = "UnaryOpNode" -> <<o.child>>
      [] o.type = "FuncCallNode" -> o.args
      [] OTHER -> <<>>

ChildrenOf(h, r) == {ChildRefs(h[r])[k] : k \in 1..Len(ChildRefs(h[r]))}

\* the objects reached from the set rs through child slots, rs included
RECURSIVE ReachFrom(_, _)
ReachFrom(h, rs) ==
    LET more == rs \cup UNION {ChildrenOf(h, r) : r \in rs} IN
    IF more = rs THEN rs ELSE ReachFrom(h, more)

Live == ReachFrom(obj_heap, {obj_root})

\* the child slots <<object, slot>> of the heap that hold reference r
ParentSlots(h, r) ==
    {s \in UNION {{<<p, k>> : k \in 1..Len(ChildRefs(h[p]))} : p \in 1..Len(h)} :
        ChildRefs(h[s[1]])[s[2]] = r}

\* the tree below reference r as a value
RECURSIVE Deref(_, _)
Deref(h, r) ==
    LET o == h[r] IN
    CASE o.type = "BinaryOpNode" -> BinaryOpNode(o.op, Deref(h, o.left), Deref(h, o.right), o.pos)
      [] o.type = "UnaryOpNode" -> UnaryOpNode(o.op, Deref(h, o.child), o.pos)
      [] o.type = "FuncCallNode" ->
            FuncCallNode(o.id, [k \in 1..Len(o.args) |-> Deref(h, o.args[k])], o.pos)
      [] OTHER -> o

\* an object whose slot was assigned after it was built holds a reference
\* to an object built later than itself
Rotated(h, r) == h[r].type = "BinaryOpNode" /\ h[r].left > r

SplicedInto(h, r) == h[r].type = "UnaryOpNode" /\ h[r].child > r

Src_rotation_and_splice == <<"2", " ", "*", " ", "-", "3", "!", " ", "+", " ", "4">>

\* C24: in the heap build_expression_tree leaves, no child slot holds the
\* root, every other object of the tree is held by exactly one child slot,
\* and no object of the tree is reached from its own children; this holds
\* of trees whose building rotated binary nodes and spliced postfix nodes.
C24_TreeOfObjects ==
    Built =>
        /\ obj_root \in 1..Len(obj_heap)
        /\ Live \subseteq 1..Len(obj_heap)
        /\ ParentSlots(obj_heap, obj_root) = {}
        /\ \A r \in Live \ {obj_root} : Cardinality(ParentSlots(obj_heap, r)) = 1
        /\ \A r \in Live : r \notin ReachFrom(obj_heap, ChildrenOf(obj_heap, r))

C24_Witness ==
    /\ Built
    /\ exp = Src_rotation_and_splice
    /\ \E r \in Live : Rotated(obj_heap, r)
    /\ \E r \in Live : SplicedInto(obj_heap, r)
    /\ Cardinality(Live) = 7

(***************************************************************************)
(* The positions of the nodes.                                             *)
(***************************************************************************)
\* object o is what token k of tl defines
DefinedBy(o, tl, k) ==
    /\ o.pos = tl[k].pos
    /\ CASE o.type = "NumberNode" -> tl[k].type = "TokenNumber" /\ o.num = tl[k].num
         [] o.type = "NameConstantNode" ->
               /\ tl[k].type = "TokenName" /\ o.name = tl[k].name
               /\ ~(k < Len(tl) /\ is_open_bracket(tl[k + 1]))
         [] o.type = "FuncCallNode" ->
               /\ tl[k].type = "TokenName" /\ o.id = tl[k].name
               /\ k < Len(tl) /\ is_open_bracket(tl[k + 1])
         [] o.type = "UnaryOpNode" ->
               tl[k].type = "TokenSymbol" /\ o.op = tl[k].symbol /\ is_unary_op(o.op)
         [] o.type = "BinaryOpNode" ->
               tl[k].type = "TokenSymbol" /\ o.op = tl[k].symbol /\ o.op \in DOMAIN BINOP_TABLE
         [] OTHER -> FALSE

\* the character of the source at the position of object o
CharAtPosOf(o) == At(exp, o.pos)

\* C25: every node of the tree carries the position of one token, the one
\* that defines it: a number node that of a number token with its value, a
\* constant that of a name token with its name, a call that of the name
\* token before its open bracket, a unary or binary node that of the
\* symbol token of its operator, whose character stands at that position
\* of the source; no token defines two nodes; this holds of the nodes that
\* a rotation or a splice has moved.
C25_NodesCarryTokenPositions ==
    Built =>
        /\ \A r \in Live : \E k \in 1..Len(token_list) : DefinedBy(obj_heap[r], token_list, k)
        /\ \A r \in Live :
              obj_heap[r].type \in {"UnaryOpNode", "BinaryOpNode"} =>
                 CharAtPosOf(obj_heap[r]) = obj_heap[r].op
        /\ \A r \in Live :
              obj_heap[r].type \in {"NameConstantNode", "FuncCallNode"} =>
                 CharAtPosOf(obj_heap[r])
                    = (IF obj_heap[r].type = "FuncCallNode" THEN obj_heap[r].id
                       ELSE obj_heap[r].name)[1]
        /\ \A r, q \in Live : obj_heap[r].pos = obj_heap[q].pos => r = q
        /\ FindPos(node, obj_heap[obj_root].pos) = node

C25_Witness ==
    /\ Built
    /\ exp = Src_rotation_and_splice
    /\ \E r \in Live : Rotated(obj_heap, r) /\ obj_heap[r].pos = 8 /\ obj_heap[r].op = "+"
    /\ \E r \in Live : Rotated(obj_heap, r) /\ obj_heap[obj_heap[r].left].pos = 2
    /\ \E r \in Live : SplicedInto(obj_heap, r) /\ obj_heap[obj_heap[r].child].pos = 6

(***************************************************************************)
(* The end of a number literal.                                            *)
(***************************************************************************)
\* characters a..b-1 of src are digits (0-based)
DigitRun(src, a, b) == \A j \in a..(b - 1) : isnumeric(At(src, j))

\* characters a..b-1 are digits with at most one '.', and hold a digit
IsMantissa(src, a, b) ==
    /\ \E j \in a..(b - 1) : isnumeric(At(src, j))
    /\ \/ DigitRun(src, a, b)
       \/ \E p \in a..(b - 1) :
             At(src, p) = SEP_DOT /\ DigitRun(src, a, p) /\ DigitRun(src, p + 1, b)

\* the state of the number machine after it has read characters s..i-1 from
\* state start, when they are a complete literal; "none" otherwise
ScanState(src, s, i) ==
    IF i > s /\ DigitRun(src, s, i) THEN "int"
    ELSE IF IsMantissa(src, s, i) THEN "fraction"
    ELSE IF \E q \in (s + 1)..(i - 2) :
               /\ At(src, q) \in {"e", "E"}
               /\ IsMantissa(src, s, q)
               /\ \/ DigitRun(src, q + 1, i)
                  \/ /\ At(src, q + 1) \in {OP_NEGATIVE, OP_POSITIVE}
                     /\ q + 2 < i
                     /\ DigitRun(src, q + 2, i)
    THEN "exponent_value"
    ELSE "none"

\* the characters the spec lists as continuations of a state
IsContinuation(state, char) ==
    \/ isnumeric(char)
    \/ char = SEP_DOT /\ state = "int"
    \/ char \in {"e", "E"} /\ state \in {"int", "fraction"}

\* tokenize calls read_number at index s of the source
ScanStart(src, s) ==
    /\ s < Len(src)
    /\ isnumeric(At(src, s)) \/ At(src, s) = SEP_DOT
    /\ s > 0 =>
          /\ At(src, s - 1) = " " \/ is_op(At(src, s - 1))
                \/ At(src, s - 1) \in VALID_SEPARATORS \cup {SEP_LEFT_BRACKET, SEP_RIGHT_BRACKET}
          /\ ~tokenize(Slice(src, 0, s)).raised

\* read_number emits the literal s..i-1 and hands index i back
EmitsAndResumesAt(src, s, i) ==
    read_number(src, s, <<>>)
       = Return([token_list |->
                    <<TokenNumber(number_of(ScanState(src, s, i), Slice(src, s, i)).val, s)>>,
                 i |-> i])

\* the literal s..i-1 is followed at i by a character that does not continue it
EndsLiteral(src, s, i) ==
    /\ ScanStart(src, s)
    /\ i < Len(src)
    /\ ScanState(src, s, i) # "none"
    /\ ~IsContinuation(ScanState(src, s, i), At(src, i))

Positions == 0..Len(exp)

Src_exponent_then_sign == <<"2", " ", "+", "1", ".", "5", "e", "+", "2", "-", "1">>

PeakOf(tl) == build_expression_tree_obj(tl).val.peak

\* the number of binary operator tokens of tl
OperatorCount(tl) == Cardinality({k \in 1..Len(tl) : IsBinaryOpToken(tl[k])})

\* C27: parsing a bracket-free chain of numbers and binary operators nests
\* no more activations of read_exp_chain and read_binary_exp than parsing
\* its first operator and two operands does, however many operators follow.
C27_DepthIndependentOfOperators ==
    (Built /\ IsChain(token_list)) => obj_peak <= PeakOf(SubSeq(token_list, 1, 3))

(***************************************************************************)
(* The order of the operands and operators in the tree.                    *)
(***************************************************************************)
RECURSIVE InOrder(_)
RECURSIVE InOrderAll(_)
RECURSIVE Walk(_)
RECURSIVE WalkAll(_)

\* the in-order traversal of tree n: the positions of its atoms (numbers,
\* constants, function calls with their arguments) and of its binary
\* operators, each binary operator between its operands
InOrder(n) ==
    CASE n.type = "BinaryOpNode" -> InOrder(n.left) \o <<n.pos>> \o InOrder(n.right)
      [] n.type = "UnaryOpNode" -> InOrder(n.child)
      [] n.type = "FuncCallNode" -> <<n.pos>> \o InOrderAll(n.args)
      [] OTHER -> <<n.pos>>

InOrderAll(ns) == IF ns = <<>> THEN <<>> ELSE InOrder(Head(ns)) \o InOrderAll(Tail(ns))

\* every node of tree n, one entry for each place where it occurs
Walk(n) ==
    <<[type |-> n.type, pos |-> n.pos, op |-> IF n.type \in {"BinaryOpNode", "UnaryOpNode"}
                                               THEN n.op ELSE ""]>>
    \o CASE n.type = "BinaryOpNode" -> Walk(n.left) \o Walk(n.right)
         [] n.type = "UnaryOpNode" -> Walk(n.child)
         [] n.type = "FuncCallNode" -> WalkAll(n.args)
         [] OTHER -> <<>>

WalkAll(ns) == IF ns = <<>> THEN <<>> ELSE Walk(Head(ns)) \o WalkAll(Tail(ns))

\* token k of tl is an operator symbol
IsOperatorToken(tl, k) == tl[k].type = "TokenSymbol" /\ is_op(tl[k].symbol)

\* token k of tl is an operator that stands where an operand starts
UsedAsUnaryPrefix(tl, k) == IsOperatorToken(tl, k) /\ AtOperandPosition(tl, k)

\* token k of tl is a number, a name, or an operator between two operands
InOrderToken(tl, k) ==
    \/ tl[k].type \in {"TokenNumber", "TokenName"}
    \/ /\ IsBinaryOpToken(tl[k])
       /\ ~UsedAsUnaryPrefix(tl, k)

RECURSIVE InOrderPositions(_, _)
InOrderPositions(tl, k) ==
    IF k > Len(tl) THEN <<>>
    ELSE (IF InOrderToken(tl, k) THEN <<tl[k].pos>> ELSE <<>>) \o InOrderPositions(tl, k + 1)

\* the places of tree n where a node of operator token t occurs
OccurrencesOf(n, t) ==
    {j \in 1..Len(Walk(n)) :
        /\ Walk(n)[j].pos = t.pos
        /\ Walk(n)[j].op = t.symbol
        /\ Walk(n)[j].type \in {"BinaryOpNode", "UnaryOpNode"}}

\* C28: the in-order traversal of the tree build_expression_tree returns
\* lists the atoms and the binary operators at the positions of the number,
\* name and binary operator tokens, in the order of the token list; every
\* operator token, unary ones included, is the operator of exactly one node
\* of the tree, and the tree has as many nodes as the list has number, name
\* and operator tokens: no operand or operator is dropped or duplicated, and
\* no operand or binary operator is moved past another, with or without
\* rotation and splice.  (Which of two unary operators on one operand is the
\* outer node is not part of the statement: '(3!)!' nests the second '!'
\* under the first.)
C28_InOrderIsTokenOrder ==
    Built =>
        /\ InOrder(node) = InOrderPositions(token_list, 1)
        /\ \A k \in 1..Len(token_list) :
              IsOperatorToken(token_list, k) =>
                 Cardinality(OccurrencesOf(node, token_list[k])) = 1
        /\ Len(Walk(node))
              = Cardinality({k \in 1..Len(token_list) :
                                \/ token_list[k].type \in {"TokenNumber", "TokenName"}
                                \/ IsOperatorToken(token_list, k)})

C28_Witness ==
    /\ Built
    /\ exp = Src_rotation_and_splice
    /\ node.type = "BinaryOpNode" /\ node.op = "+"
    /\ node.left.type = "BinaryOpNode" /\ node.left.op = "*"
    /\ node.left.right.type = "UnaryOpNode" /\ node.left.right.op = "-"
    /\ node.left.right.child.type = "UnaryOpNode" /\ node.left.right.child.op = "!"
    /\ InOrder(node) = <<0, 2, 5, 8, 10>>
    /\ Len(Walk(node)) = 7

(***************************************************************************)
(* Termination of the key handlers.                                        *)
(***************************************************************************)
\* the handler that is running has reached a step that leaves every
\* variable as it is and is due again: it never returns
RepeatsItself ==
    /\ handler_pc = "_popTopMostState"
    /\ LET o == _popTopMostState_step(_stateStack, StdRTStates.PREOP, pop_i) IN
       /\ ~o.returned
       /\ o.stack = _stateStack
       /\ o.i = pop_i

\* C29: every key handler of CalculatorRuntimeStandard returns after
\* finitely many steps from every reachable runtime state: no handler, the
\* loop of _popTopMostState under _negetHandle included, reaches a step that
\* repeats itself without changing anything.
C29_HandlersReturn == ~RepeatsItself

(***************************************************************************)
(* What _popTopMostState removes.                                          *)
(***************************************************************************)
\* the index of the topmost entry of stack above the bottom that equals
\* code, 0 if there is none
TopMost(stack, code) ==
    LET found == {k \in 2..Len(stack) : stack[k] = code} IN
    IF found = {} THEN 0 ELSE CHOOSE k \in found : \A j \in found : j <= k

\* stack without its entry k
Without(stack, k) == SubSeq(stack, 1, k - 1) \o SubSeq(stack, k + 1, Len(stack))

\* stack after the removal of entry k, two ANY entries that the removal
\* made neighbours merged into one or not
RemovedAt(stack, k) ==
    LET s1 == Without(stack, k) IN
    {s1} \cup (IF k <= Len(s1) /\ s1[k] = StdRTStates.ANY /\ s1[k - 1] = StdRTStates.ANY
               THEN {Without(s1, k)} ELSE {})

\* C30: when _popTopMostState(code) returns, the topmost entry above the
\* bottom of the state stack that equalled code has been removed and
\* nothing else (but an ANY next to another ANY), or no entry above the
\* bottom equalled code and the stack is as it was; so toggling the sign
\* on and off leaves no PREOP entry behind.
C30_PopRemovesTopMost ==
    [][(handler_pc = "_popTopMostState" /\ handler_pc' = "idle") =>
          LET k == TopMost(_stateStack, StdRTStates.PREOP) IN
          IF k = 0 THEN _stateStack' = _stateStack
          ELSE _stateStack' \in RemovedAt(_stateStack, k)]_vars

====
